---- MODULE Spec2Model ----
(***************************************************************************)
(* Model of the sequential multi-agent research workflow.                  *)
(*                                                                         *)
(*   src/src/agents.py              the five agents' process methods and   *)
(*                                  their text-extraction heuristics       *)
(*   src/src/multi_agent_system.py  MultiAgentResearchSystem, the          *)
(*                                  orchestrator run_research_workflow     *)
(*                                                                         *)
(* Python values are modelled as follows.  A str is a sequence of atoms    *)
(* (generated texts are sequences of single characters, fixed literals of  *)
(* the code are one atom each), so "" is << >>, + and f-string             *)
(* interpolation are \o.  A list is a sequence.  A dict is a function      *)
(* from keys to values, {} is << >>, d.get(k, v) is Get(d, k, v), and a    *)
(* key assignment is SetKey.                                               *)
(***************************************************************************)
EXTENDS Integers, Sequences, FiniteSets, TLC

VARIABLES pc, workflow_data, trace, call

vars == <<pc, workflow_data, trace, call>>

(***************************************************************************)
(* Bounds of the model.                                                    *)
(***************************************************************************)
MaxSources == 1

(***************************************************************************)
(* dict helpers                                                            *)
(***************************************************************************)
EmptyDict == << >>

Get(d, k, default) == IF k \in DOMAIN d THEN d[k] ELSE default

SetKey(d, k, v) == [x \in (DOMAIN d) \cup {k} |-> IF x = k THEN v ELSE d[x]]

(***************************************************************************)
(* str helpers: str.strip, str.split('\n'), str.lower, substring test,     *)
(* str.isdigit on one character.                                           *)
(***************************************************************************)
NL == "\n"

IsSpace(c) == c \in {" ", "\t", "\n", "\r"}

isdigit(c) == c \in {"0", "1", "2", "3", "4", "5", "6", "7", "8", "9"}

RECURSIVE lstrip(_)
lstrip(s) == IF s = << >> THEN s
             ELSE IF IsSpace(Head(s)) THEN lstrip(Tail(s)) ELSE s

RECURSIVE rstrip(_)
rstrip(s) == IF s = << >> THEN s
             ELSE IF IsSpace(s[Len(s)]) THEN rstrip(SubSeq(s, 1, Len(s) - 1)) ELSE s

strip(s) == rstrip(lstrip(s))

RECURSIVE split(_)
split(s) ==
    LET idx == {i \in 1..Len(s) : s[i] = NL}
    IN  IF idx = {} THEN <<s>>
        ELSE LET i == CHOOSE j \in idx : \A m \in idx : j <= m
             IN  <<SubSeq(s, 1, i - 1)>> \o split(SubSeq(s, i + 1, Len(s)))

UpperToLower ==
    [c \in {"A", "B", "C", "D", "E", "F", "G", "H", "I", "J", "K", "L", "M",
            "N", "O", "P", "Q", "R", "S", "T", "U", "V", "W", "X", "Y", "Z"} |->
        CASE c = "A" -> "a" [] c = "B" -> "b" [] c = "C" -> "c" [] c = "D" -> "d"
          [] c = "E" -> "e" [] c = "F" -> "f" [] c = "G" -> "g" [] c = "H" -> "h"
          [] c = "I" -> "i" [] c = "J" -> "j" [] c = "K" -> "k" [] c = "L" -> "l"
          [] c = "M" -> "m" [] c = "N" -> "n" [] c = "O" -> "o" [] c = "P" -> "p"
          [] c = "Q" -> "q" [] c = "R" -> "r" [] c = "S" -> "s" [] c = "T" -> "t"
          [] c = "U" -> "u" [] c = "V" -> "v" [] c = "W" -> "w" [] c = "X" -> "x"
          [] c = "Y" -> "y" [] c = "Z" -> "z"]

lower(s) == [i \in 1..Len(s) |-> IF s[i] \in DOMAIN UpperToLower THEN UpperToLower[s[i]] ELSE s[i]]

\* Python's  kw in s
In(kw, s) == \E i \in 1..(Len(s) - Len(kw) + 1) : SubSeq(s, i, i + Len(kw) - 1) = kw

\* Python's  s.startswith(c)  for a one-character c
startswith(s, c) == Len(s) > 0 /\ s[1] = c

\* Mutant of Take: the slice is missing, the whole list is returned.
Take_All(xs, n) == xs

\* Python's  xs[:n]
Take(xs, n) == SubSeq(xs, 1, IF Len(xs) < n THEN Len(xs) ELSE n)

\* [line.strip() for line in xs]
StripAll(xs) == [i \in 1..Len(xs) |-> strip(xs[i])]

(***************************************************************************)
(* Extraction heuristics (agents.py).                                      *)
(***************************************************************************)
\* Mutant of _extract_findings: the bullet or number that marks a finding is
\* cut off the item.
_extract_findings_DropsMarker(analysis) ==
    LET lines == split(analysis)
        findings == StripAll(SelectSeq(lines,
                          LAMBDA line : /\ strip(line) # << >>
                                        /\ \/ startswith(strip(line), "-")
                                           \/ isdigit(strip(line)[1])))
    IN  Take([i \in 1..Len(findings) |-> strip(Tail(findings[i]))], 10)

\* ResearcherAgent._extract_findings
_extract_findings(analysis) ==
    LET lines == split(analysis)
        findings == StripAll(SelectSeq(lines,
                          LAMBDA line : /\ strip(line) # << >>
                                        /\ \/ startswith(strip(line), "-")
                                           \/ isdigit(strip(line)[1])))
    IN  Take(findings, 10)

\* The loop of ReviewerAgent._extract_section from line number i on, with the
\* loop's in_section flag and the section_lines collected so far.
RECURSIVE SectionLoop(_, _, _, _, _)
SectionLoop(lines, i, section, in_section, section_lines) ==
    IF i > Len(lines) THEN section_lines
    ELSE
      LET line == lines[i]
          header == /\ In(lower(section), lower(line))
                    /\ IF strip(line) # << >>
                       THEN In(<<"-">>, line) \/ isdigit(line[1])
                       ELSE FALSE
          ins == in_section \/ header
      IN  IF ~ins THEN SectionLoop(lines, i + 1, section, ins, section_lines)
          ELSE IF /\ strip(line) # << >>
                  /\ \/ startswith(strip(line), "-")
                     \/ (strip(line) # << >> /\ isdigit(strip(line)[1]))
               THEN SectionLoop(lines, i + 1, section, ins,
                                Append(section_lines, strip(line)))
          ELSE IF /\ strip(line) # << >>
                  /\ ~isdigit(strip(line)[1])
                  /\ ~In(<<"-">>, line)
                  /\ Len(strip(line)) > 50
               THEN section_lines
          ELSE SectionLoop(lines, i + 1, section, ins, section_lines)

\* ReviewerAgent._extract_section
_extract_section(text, section) ==
    Take(SectionLoop(split(text), 1, section, FALSE, << >>), 5)

KwStrengths == <<"s", "t", "r", "e", "n", "g", "t", "h", "s">>
KwWeaknesses == <<"w", "e", "a", "k", "n", "e", "s", "s", "e", "s">>
KwHypothesis == <<"h", "y", "p", "o", "t", "h", "e", "s", "i", "s">>
KwInsight == <<"i", "n", "s", "i", "g", "h", "t">>
KwPattern == <<"p", "a", "t", "t", "e", "r", "n">>
KwRelationship == <<"r", "e", "l", "a", "t", "i", "o", "n", "s", "h", "i", "p">>
KwGap == <<"g", "a", "p">>

\* SynthesizerAgent._extract_hypotheses
_extract_hypotheses(synthesis) ==
    LET lines == split(synthesis)
        hypotheses == StripAll(SelectSeq(lines,
                            LAMBDA line : /\ \/ In(KwHypothesis, lower(line))
                                             \/ In(<<"h", "1">>, lower(line))
                                             \/ In(<<"h", "2">>, lower(line))
                                             \/ In(<<"h", "3">>, lower(line))
                                          /\ strip(line) # << >>
                                          /\ Len(strip(line)) > 20))
    IN  Take(hypotheses, 5)

\* SynthesizerAgent._extract_insights
_extract_insights(synthesis) ==
    LET lines == split(synthesis)
        insights == StripAll(SelectSeq(lines,
                          LAMBDA line : /\ \/ In(KwInsight, lower(line))
                                           \/ In(KwPattern, lower(line))
                                           \/ In(KwRelationship, lower(line))
                                        /\ strip(line) # << >>
                                        /\ Len(strip(line)) > 30))
    IN  Take(insights, 5)

\* QuestionerAgent._extract_gaps
_extract_gaps(text) ==
    LET lines == split(text)
        gaps == StripAll(SelectSeq(lines,
                      LAMBDA line : /\ In(KwGap, lower(line))
                                    /\ strip(line) # << >>
                                    /\ Len(strip(line)) > 20))
    IN  Take(gaps, 5)

\* QuestionerAgent._extract_questions
_extract_questions(text) ==
    LET lines == split(text)
        questions == StripAll(SelectSeq(lines,
                           LAMBDA line : /\ In(<<"?">>, line)
                                         /\ strip(line) # << >>
                                         /\ Len(strip(line)) > 10))
    IN  Take(questions, 7)

(***************************************************************************)
(* Exceptions of the heuristics.  On a str, split, strip, lower, in, len   *)
(* and slicing are total; the only operation of the heuristics that can    *)
(* raise is an index expression s[0], which raises IndexError when s is    *)
(* empty.  _extract_hypotheses, _extract_insights, _extract_gaps and       *)
(* _extract_questions have no index expression.                            *)
(***************************************************************************)
IndexError(s) == s = << >>

\* str(e) of that IndexError
IndexErrorMessage == <<"string index out of range">>

\* Mutant of _extract_findings_raises: the guard  line.strip() and  is
\* missing, so the index expression is reached on a blank line.
_extract_findings_raises_Unguarded(analysis) ==
    LET lines == split(analysis)
    IN  \E i \in 1..Len(lines) :
          LET line == lines[i]
          IN  /\ ~startswith(strip(line), "-")
              /\ IndexError(strip(line))

\* _extract_findings raises: some line reaches  line.strip()[0]  with an
\* empty line.strip()
_extract_findings_raises(analysis) ==
    LET lines == split(analysis)
    IN  \E i \in 1..Len(lines) :
          LET line == lines[i]
          IN  /\ strip(line) # << >>
              /\ ~startswith(strip(line), "-")
              /\ IndexError(strip(line))

\* _extract_section raises: some line reaches  line[0]  with an empty line,
\* or  line.strip()[0]  with an empty line.strip()
_extract_section_raises(text, section) ==
    LET lines == split(text)
    IN  \E i \in 1..Len(lines) :
          LET line == lines[i]
          IN  \/ /\ In(lower(section), lower(line))
                 /\ strip(line) # << >>
                 /\ ~In(<<"-">>, line)
                 /\ IndexError(line)
              \/ /\ strip(line) # << >>
                 /\ ~startswith(strip(line), "-")
                 /\ IndexError(strip(line))

(***************************************************************************)
(* The two collaborators.  The retrieval subsystem (rag_pipeline) and the  *)
(* text-generation service (self.llm) are external: a call either returns  *)
(* a value of the contract's shape or raises, and which of the two is the  *)
(* environment's choice.                                                    *)
(***************************************************************************)
Citations == {[source |-> <<"a.pdf">>, page |-> 1], [source |-> <<"b.pdf">>]}

SourceLists == UNION {[1..n -> Citations] : n \in 0..MaxSources}

\* str(e) of an exception a collaborator raises; Exception() has str(e) = ""
ExcDescriptions == {<< >>, <<"quota exceeded">>}

\* rag_pipeline.answer_question(query, k=k, return_sources=True)
RetrievalOutcomes ==
    {[kind |-> "ok", value |-> [answer |-> <<"synthesized answer">>, sources |-> srcs]] :
        srcs \in SourceLists}
    \cup {[kind |-> "raise", desc |-> d] : d \in ExcDescriptions}

Rep(c, n) == [i \in 1..n |-> c]

\* Generated texts: the empty text, and a text of six lines in which every
\* extraction heuristic finds something:
\*     - Strengths
\*     - s1
\*     - Weaknesses
\*     1. w
\*     H1 hypothesis xxxxxxxxxx?
\*     Gap pattern yyyyyyyyyyyyyyyyyyyyyyyyy
TextReport ==
    <<"-", " ", "S", "t", "r", "e", "n", "g", "t", "h", "s", NL>>
    \o <<"-", " ", "s", "1", NL>>
    \o <<"-", " ", "W", "e", "a", "k", "n", "e", "s", "s", "e", "s", NL>>
    \o <<"1", ".", " ", "w", NL>>
    \o <<"H", "1", " ", "h", "y", "p", "o", "t", "h", "e", "s", "i", "s", " ">>
    \o Rep("x", 10) \o <<"?", NL>>
    \o <<"G", "a", "p", " ", "p", "a", "t", "t", "e", "r", "n", " ">> \o Rep("y", 25)

GenTexts == {<< >>, TextReport}

\* self.llm.invoke(messages), then response.content
GenerationOutcomes ==
    {[kind |-> "ok", text |-> t] : t \in GenTexts}
    \cup {[kind |-> "raise", desc |-> d] : d \in ExcDescriptions}

Queries == {<<"effects of X on Y">>, <<"q2">>}

(***************************************************************************)
(* Agents (agents.py).  A call of process is a function of its arguments   *)
(* and of what the collaborators answer; it yields either a returned       *)
(* result or a raised exception, and the events of the call in order:      *)
(* "process" (the call of process, with the input_data it was given),      *)
(* "retrieve" (a request to the retrieval collaborator), "retrieved" (its  *)
(* answer), "generate" (a call of the generation collaborator, with what   *)
(* it answered), then "return" or "raise".                                 *)
(***************************************************************************)
Ev(e, a, x) == [ev |-> e, agent |-> a, arg |-> x]

Returned(result, events) ==
    [raised |-> FALSE, exc |-> << >>, result |-> result,
     events |-> Append(events, Ev("return", result.agent, result))]

Raised(name, desc, events) ==
    [raised |-> TRUE, exc |-> desc, result |-> EmptyDict,
     events |-> Append(events, Ev("raise", name, desc))]

\* Mutant of max_retrieval_docs: the Questioner is configured with a ceiling
\* below the k it asks for.
max_retrieval_docs_Lowered ==
    [a \in {"RESEARCHER", "REVIEWER", "SYNTHESIZER", "QUESTIONER", "FORMATTER"} |->
        CASE a = "RESEARCHER" -> 10
          [] a = "REVIEWER" -> 8
          [] a = "SYNTHESIZER" -> 8
          [] a = "QUESTIONER" -> 4
          [] a = "FORMATTER" -> 0]

\* max_retrieval_docs passed to BaseAgent.__init__ by each agent
max_retrieval_docs ==
    [a \in {"RESEARCHER", "REVIEWER", "SYNTHESIZER", "QUESTIONER", "FORMATTER"} |->
        CASE a = "RESEARCHER" -> 10
          [] a = "REVIEWER" -> 8
          [] a = "SYNTHESIZER" -> 8
          [] a = "QUESTIONER" -> 6
          [] a = "FORMATTER" -> 0]

\* k = None
NoneK == -1

\* BaseAgent.retrieve_context: the request sent to the retrieval collaborator
retrieve_context(name, query, k) ==
    Ev("retrieve", name,
       [query |-> query, k |-> IF k = NoneK THEN max_retrieval_docs[name] ELSE k])

\* The collaborator's answer to a request, as the history records it: the
\* number of sources it returned.
retrieved(name, context_result) ==
    Ev("retrieved", name, Len(Get(context_result, "sources", << >>)))

\* Mutant of NoSources: only a missing 'sources' key counts as empty.
NoSources_KeyOnly(context_result) == "sources" \notin DOMAIN context_result

\* Mutant of NoSources: every retrieval counts as empty.
NoSources_Always(context_result) == TRUE

\* Mutant of NoSources: the empty-retrieval test is missing.
NoSources_Never(context_result) == FALSE

\* not context_result.get('sources')
NoSources(context_result) ==
    IF "sources" \in DOMAIN context_result THEN context_result.sources = << >> ELSE TRUE

\* input_data.get('status') != 'success'
NotSuccess(d) == IF "status" \in DOMAIN d THEN d.status # "success" ELSE TRUE

\* ResearcherAgent.process
ResearcherProcess(input_data, query, ret, gen) ==
    LET name == "RESEARCHER"
        retrieval_query == Get(input_data, "query", query)
        e1 == <<Ev("process", name, input_data), retrieve_context(name, retrieval_query, 10)>>
    IN  IF ret.kind = "raise" THEN Raised(name, ret.desc, e1)
        ELSE IF NoSources(ret.value)
        THEN Returned([agent |-> name, status |-> "error",
                       message |-> <<"No relevant documents found">>,
                       findings |-> << >>, sources |-> << >>],
                      Append(e1, retrieved(name, ret.value)))
        ELSE
          LET sources == Get(ret.value, "sources", << >>)
              e2 == e1 \o <<retrieved(name, ret.value), Ev("generate", name, gen)>>
          IN  IF gen.kind = "raise"
              THEN Returned([agent |-> name, status |-> "error", message |-> gen.desc,
                             findings |-> << >>, sources |-> << >>], e2)
              ELSE IF _extract_findings_raises(gen.text)
              THEN Returned([agent |-> name, status |-> "error",
                             message |-> IndexErrorMessage,
                             findings |-> << >>, sources |-> << >>], e2)
              ELSE Returned([agent |-> name, status |-> "success",
                             analysis |-> gen.text,
                             findings |-> _extract_findings(gen.text),
                             sources |-> sources,
                             num_sources |-> Len(sources)], e2)

\* Mutant of ReviewerProcess: a citation the researcher already has is not
\* added again.
ReviewerProcess_Dedup(input_data, query, ret, gen) ==
    LET name == "REVIEWER"
        e0 == <<Ev("process", name, input_data)>>
    IN  IF NotSuccess(input_data)
        THEN Returned([agent |-> name, status |-> "error",
                       message |-> <<"Invalid input from previous agent">>,
                       critique |-> << >>], e0)
        ELSE
          LET researcher_analysis == Get(input_data, "analysis", << >>)
              sources == Get(input_data, "sources", << >>)
              critique_query == <<"methodology limitations weaknesses ">> \o query
              e1 == Append(e0, retrieve_context(name, critique_query, 6))
              e2 == e1 \o <<retrieved(name, ret.value), Ev("generate", name, gen)>>
              fresh == SelectSeq(Get(ret.value, "sources", << >>),
                                 LAMBDA c : \A i \in 1..Len(sources) : sources[i] # c)
          IN  IF ret.kind = "raise" THEN Raised(name, ret.desc, e1)
              ELSE IF gen.kind = "raise"
              THEN Returned([agent |-> name, status |-> "error", message |-> gen.desc,
                             critique |-> << >>], e2)
              ELSE IF \/ _extract_section_raises(gen.text, KwStrengths)
                      \/ _extract_section_raises(gen.text, KwWeaknesses)
              THEN Returned([agent |-> name, status |-> "error",
                             message |-> IndexErrorMessage, critique |-> << >>], e2)
              ELSE Returned([agent |-> name, status |-> "success",
                             critique |-> gen.text,
                             researcher_analysis |-> researcher_analysis,
                             strengths |-> _extract_section(gen.text, KwStrengths),
                             weaknesses |-> _extract_section(gen.text, KwWeaknesses),
                             sources |-> sources \o fresh], e2)

\* ReviewerAgent.process
ReviewerProcess(input_data, query, ret, gen) ==
    LET name == "REVIEWER"
        e0 == <<Ev("process", name, input_data)>>
    IN  IF NotSuccess(input_data)
        THEN Returned([agent |-> name, status |-> "error",
                       message |-> <<"Invalid input from previous agent">>,
                       critique |-> << >>], e0)
        ELSE
          LET researcher_analysis == Get(input_data, "analysis", << >>)
              sources == Get(input_data, "sources", << >>)
              critique_query == <<"methodology limitations weaknesses ">> \o query
              e1 == Append(e0, retrieve_context(name, critique_query, 6))
              e2 == e1 \o <<retrieved(name, ret.value), Ev("generate", name, gen)>>
          IN  IF ret.kind = "raise" THEN Raised(name, ret.desc, e1)
              ELSE IF gen.kind = "raise"
              THEN Returned([agent |-> name, status |-> "error", message |-> gen.desc,
                             critique |-> << >>], e2)
              ELSE IF \/ _extract_section_raises(gen.text, KwStrengths)
                      \/ _extract_section_raises(gen.text, KwWeaknesses)
              THEN Returned([agent |-> name, status |-> "error",
                             message |-> IndexErrorMessage, critique |-> << >>], e2)
              ELSE Returned([agent |-> name, status |-> "success",
                             critique |-> gen.text,
                             researcher_analysis |-> researcher_analysis,
                             strengths |-> _extract_section(gen.text, KwStrengths),
                             weaknesses |-> _extract_section(gen.text, KwWeaknesses),
                             sources |-> sources \o Get(ret.value, "sources", << >>)], e2)

\* Mutant of SynthesizerProcess: the result carries the sources of the
\* reviewer result it was given.
SynthesizerProcess_CarriesSources(input_data, query, ret, gen) ==
    LET name == "SYNTHESIZER"
        e0 == <<Ev("process", name, input_data)>>
    IN  IF NotSuccess(input_data)
        THEN Returned([agent |-> name, status |-> "error",
                       message |-> <<"Invalid input from previous agent">>,
                       synthesis |-> << >>, hypotheses |-> << >>], e0)
        ELSE
          LET researcher_analysis == Get(input_data, "researcher_analysis", << >>)
              critique == Get(input_data, "critique", << >>)
              synthesis_query == <<"hypotheses research questions future work ">> \o query
              e1 == Append(e0, retrieve_context(name, synthesis_query, 6))
              e2 == e1 \o <<retrieved(name, ret.value), Ev("generate", name, gen)>>
          IN  IF ret.kind = "raise" THEN Raised(name, ret.desc, e1)
              ELSE IF gen.kind = "raise"
              THEN Returned([agent |-> name, status |-> "error", message |-> gen.desc,
                             synthesis |-> << >>, hypotheses |-> << >>], e2)
              ELSE Returned([agent |-> name, status |-> "success",
                             synthesis |-> gen.text,
                             hypotheses |-> _extract_hypotheses(gen.text),
                             insights |-> _extract_insights(gen.text),
                             researcher_analysis |-> researcher_analysis,
                             critique |-> critique,
                             sources |-> Get(input_data, "sources", << >>)], e2)

\* Mutant of SynthesizerProcess: the context is retrieved before the status
\* of the input is tested.
SynthesizerProcess_RetrievesFirst(input_data, query, ret, gen) ==
    LET name == "SYNTHESIZER"
        researcher_analysis == Get(input_data, "researcher_analysis", << >>)
        critique == Get(input_data, "critique", << >>)
        synthesis_query == <<"hypotheses research questions future work ">> \o query
        e1 == <<Ev("process", name, input_data), retrieve_context(name, synthesis_query, 6)>>
        e2 == e1 \o <<retrieved(name, ret.value), Ev("generate", name, gen)>>
    IN  IF ret.kind = "raise" THEN Raised(name, ret.desc, e1)
        ELSE IF NotSuccess(input_data)
        THEN Returned([agent |-> name, status |-> "error",
                       message |-> <<"Invalid input from previous agent">>,
                       synthesis |-> << >>, hypotheses |-> << >>],
                      Append(e1, retrieved(name, ret.value)))
        ELSE IF gen.kind = "raise"
        THEN Returned([agent |-> name, status |-> "error", message |-> gen.desc,
                       synthesis |-> << >>, hypotheses |-> << >>], e2)
        ELSE Returned([agent |-> name, status |-> "success",
                       synthesis |-> gen.text,
                       hypotheses |-> _extract_hypotheses(gen.text),
                       insights |-> _extract_insights(gen.text),
                       researcher_analysis |-> researcher_analysis,
                       critique |-> critique], e2)

\* Mutant of SynthesizerProcess: no try/except around the generation call.
SynthesizerProcess_GenEscapes(input_data, query, ret, gen) ==
    LET name == "SYNTHESIZER"
        e0 == <<Ev("process", name, input_data)>>
    IN  IF NotSuccess(input_data)
        THEN Returned([agent |-> name, status |-> "error",
                       message |-> <<"Invalid input from previous agent">>,
                       synthesis |-> << >>, hypotheses |-> << >>], e0)
        ELSE
          LET researcher_analysis == Get(input_data, "researcher_analysis", << >>)
              critique == Get(input_data, "critique", << >>)
              synthesis_query == <<"hypotheses research questions future work ">> \o query
              e1 == Append(e0, retrieve_context(name, synthesis_query, 6))
              e2 == e1 \o <<retrieved(name, ret.value), Ev("generate", name, gen)>>
          IN  IF ret.kind = "raise" THEN Raised(name, ret.desc, e1)
              ELSE IF gen.kind = "raise" THEN Raised(name, gen.desc, e2)
              ELSE Returned([agent |-> name, status |-> "success",
                             synthesis |-> gen.text,
                             hypotheses |-> _extract_hypotheses(gen.text),
                             insights |-> _extract_insights(gen.text),
                             researcher_analysis |-> researcher_analysis,
                             critique |-> critique], e2)

\* SynthesizerAgent.process
SynthesizerProcess(input_data, query, ret, gen) ==
    LET name == "SYNTHESIZER"
        e0 == <<Ev("process", name, input_data)>>
    IN  IF NotSuccess(input_data)
        THEN Returned([agent |-> name, status |-> "error",
                       message |-> <<"Invalid input from previous agent">>,
                       synthesis |-> << >>, hypotheses |-> << >>], e0)
        ELSE
          LET researcher_analysis == Get(input_data, "researcher_analysis", << >>)
              critique == Get(input_data, "critique", << >>)
              synthesis_query == <<"hypotheses research questions future work ">> \o query
              e1 == Append(e0, retrieve_context(name, synthesis_query, 6))
              e2 == e1 \o <<retrieved(name, ret.value), Ev("generate", name, gen)>>
          IN  IF ret.kind = "raise" THEN Raised(name, ret.desc, e1)
              ELSE IF gen.kind = "raise"
              THEN Returned([agent |-> name, status |-> "error", message |-> gen.desc,
                             synthesis |-> << >>, hypotheses |-> << >>], e2)
              ELSE Returned([agent |-> name, status |-> "success",
                             synthesis |-> gen.text,
                             hypotheses |-> _extract_hypotheses(gen.text),
                             insights |-> _extract_insights(gen.text),
                             researcher_analysis |-> researcher_analysis,
                             critique |-> critique], e2)

\* Mutant of QuestionerProcess: an empty retrieval is an error, as it is for
\* the RESEARCHER.
QuestionerProcess_EmptyFatal(input_data, query, ret, gen) ==
    LET name == "QUESTIONER"
        e0 == <<Ev("process", name, input_data)>>
    IN  IF NotSuccess(input_data)
        THEN Returned([agent |-> name, status |-> "error",
                       message |-> <<"Invalid input from previous agent">>,
                       gaps |-> << >>, questions |-> << >>], e0)
        ELSE
          LET synthesis == Get(input_data, "synthesis", << >>)
              hypotheses == Get(input_data, "hypotheses", << >>)
              gap_query == <<"research gaps limitations future work ">> \o query
              e1 == Append(e0, retrieve_context(name, gap_query, 5))
              e2 == e1 \o <<retrieved(name, ret.value), Ev("generate", name, gen)>>
          IN  IF ret.kind = "raise" THEN Raised(name, ret.desc, e1)
              ELSE IF NoSources(ret.value)
              THEN Returned([agent |-> name, status |-> "error",
                             message |-> <<"No relevant documents found">>,
                             gaps |-> << >>, questions |-> << >>],
                            Append(e1, retrieved(name, ret.value)))
              ELSE IF gen.kind = "raise"
              THEN Returned([agent |-> name, status |-> "error", message |-> gen.desc,
                             gaps |-> << >>, questions |-> << >>], e2)
              ELSE Returned([agent |-> name, status |-> "success",
                             gap_analysis |-> gen.text,
                             gaps |-> _extract_gaps(gen.text),
                             questions |-> _extract_questions(gen.text),
                             synthesis |-> synthesis,
                             hypotheses |-> hypotheses], e2)

\* QuestionerAgent.process
QuestionerProcess(input_data, query, ret, gen) ==
    LET name == "QUESTIONER"
        e0 == <<Ev("process", name, input_data)>>
    IN  IF NotSuccess(input_data)
        THEN Returned([agent |-> name, status |-> "error",
                       message |-> <<"Invalid input from previous agent">>,
                       gaps |-> << >>, questions |-> << >>], e0)
        ELSE
          LET synthesis == Get(input_data, "synthesis", << >>)
              hypotheses == Get(input_data, "hypotheses", << >>)
              gap_query == <<"research gaps limitations future work ">> \o query
              e1 == Append(e0, retrieve_context(name, gap_query, 5))
              e2 == e1 \o <<retrieved(name, ret.value), Ev("generate", name, gen)>>
          IN  IF ret.kind = "raise" THEN Raised(name, ret.desc, e1)
              ELSE IF gen.kind = "raise"
              THEN Returned([agent |-> name, status |-> "error", message |-> gen.desc,
                             gaps |-> << >>, questions |-> << >>], e2)
              ELSE Returned([agent |-> name, status |-> "success",
                             gap_analysis |-> gen.text,
                             gaps |-> _extract_gaps(gen.text),
                             questions |-> _extract_questions(gen.text),
                             synthesis |-> synthesis,
                             hypotheses |-> hypotheses], e2)

\* Mutant of FormatterProcess: the error result carries the sources along.
FormatterProcess_SourcesOnError(input_data, query, gen) ==
    LET name == "FORMATTER"
        researcher_data == Get(input_data, "researcher", EmptyDict)
        reviewer_data == Get(input_data, "reviewer", EmptyDict)
        synthesizer_data == Get(input_data, "synthesizer", EmptyDict)
        questioner_data == Get(input_data, "questioner", EmptyDict)
        e1 == <<Ev("process", name, input_data), Ev("generate", name, gen)>>
    IN  IF gen.kind = "raise"
        THEN Returned([agent |-> name, status |-> "error", message |-> gen.desc,
                       report |-> << >>,
                       sources |-> Get(researcher_data, "sources", << >>)], e1)
        ELSE Returned([agent |-> name, status |-> "success",
                       report |-> gen.text,
                       query |-> query,
                       researcher |-> researcher_data,
                       reviewer |-> reviewer_data,
                       synthesizer |-> synthesizer_data,
                       questioner |-> questioner_data,
                       sources |-> Get(researcher_data, "sources", << >>)], e1)

\* Mutant of FormatterProcess: the sources are read from the reviewer's result.
FormatterProcess_ReviewerSources(input_data, query, gen) ==
    LET name == "FORMATTER"
        researcher_data == Get(input_data, "researcher", EmptyDict)
        reviewer_data == Get(input_data, "reviewer", EmptyDict)
        synthesizer_data == Get(input_data, "synthesizer", EmptyDict)
        questioner_data == Get(input_data, "questioner", EmptyDict)
        e1 == <<Ev("process", name, input_data), Ev("generate", name, gen)>>
    IN  IF gen.kind = "raise"
        THEN Returned([agent |-> name, status |-> "error", message |-> gen.desc,
                       report |-> << >>], e1)
        ELSE Returned([agent |-> name, status |-> "success",
                       report |-> gen.text,
                       query |-> query,
                       researcher |-> researcher_data,
                       reviewer |-> reviewer_data,
                       synthesizer |-> synthesizer_data,
                       questioner |-> questioner_data,
                       sources |-> Get(reviewer_data, "sources", << >>)], e1)

\* Mutant of FormatterProcess: the formatter asks the retrieval collaborator
\* for its ceiling of documents before it generates.
FormatterProcess_Retrieves(input_data, query, gen) ==
    LET name == "FORMATTER"
        researcher_data == Get(input_data, "researcher", EmptyDict)
        reviewer_data == Get(input_data, "reviewer", EmptyDict)
        synthesizer_data == Get(input_data, "synthesizer", EmptyDict)
        questioner_data == Get(input_data, "questioner", EmptyDict)
        e1 == <<Ev("process", name, input_data), retrieve_context(name, query, NoneK),
                Ev("retrieved", name, 0), Ev("generate", name, gen)>>
    IN  IF gen.kind = "raise"
        THEN Returned([agent |-> name, status |-> "error", message |-> gen.desc,
                       report |-> << >>], e1)
        ELSE Returned([agent |-> name, status |-> "success",
                       report |-> gen.text,
                       query |-> query,
                       researcher |-> researcher_data,
                       reviewer |-> reviewer_data,
                       synthesizer |-> synthesizer_data,
                       questioner |-> questioner_data,
                       sources |-> Get(researcher_data, "sources", << >>)], e1)

\* FormatterAgent.process; input_data is the whole workflow record
FormatterProcess(input_data, query, gen) ==
    LET name == "FORMATTER"
        researcher_data == Get(input_data, "researcher", EmptyDict)
        reviewer_data == Get(input_data, "reviewer", EmptyDict)
        synthesizer_data == Get(input_data, "synthesizer", EmptyDict)
        questioner_data == Get(input_data, "questioner", EmptyDict)
        e1 == <<Ev("process", name, input_data), Ev("generate", name, gen)>>
    IN  IF gen.kind = "raise"
        THEN Returned([agent |-> name, status |-> "error", message |-> gen.desc,
                       report |-> << >>], e1)
        ELSE Returned([agent |-> name, status |-> "success",
                       report |-> gen.text,
                       query |-> query,
                       researcher |-> researcher_data,
                       reviewer |-> reviewer_data,
                       synthesizer |-> synthesizer_data,
                       questioner |-> questioner_data,
                       sources |-> Get(researcher_data, "sources", << >>)], e1)

(***************************************************************************)
(* Orchestrator (multi_agent_system.py, run_research_workflow).            *)
(*                                                                         *)
(* pc is the position of the run: "idle" before the call, "step1" ..       *)
(* "step5" before the stage of that number, "returned" once                *)
(* run_research_workflow has returned workflow_data to its caller.         *)
(* trace is the history of the events of the run, in order.                *)
(***************************************************************************)
\* Mutant of StoreStage: the log entry is appended but the result is not
\* stored.
StoreStage_LogOnly(wd, slot, n, name, output) ==
    [wd EXCEPT !.workflow = Append(@, [step |-> n, agent |-> name,
                                       status |-> Get(output, "status", "unknown")])]

\* Mutant of StoreStage: the log entry is not appended.
StoreStage_NoLog(wd, slot, n, name, output) == [wd EXCEPT ![slot] = output]

\* workflow_data[slot] = output; workflow_data["workflow"].append({...})
\* (the same three statements for each of the five stages)
StoreStage(wd, slot, n, name, output) ==
    [wd EXCEPT ![slot] = output,
               !.workflow = Append(@, [step |-> n, agent |-> name,
                                       status |-> Get(output, "status", "unknown")])]

\* Mutant of StageFailed: the stage's message is not read.
StageFailed_NoMessage(wd, label, output) ==
    SetKey(SetKey(wd, "status", "error"), "error", <<label>> \o <<"Unknown error">>)

\* the body of  if output.get("status") != "success":  of each stage
StageFailed(wd, label, output) ==
    SetKey(SetKey(wd, "status", "error"),
           "error", <<label>> \o Get(output, "message", <<"Unknown error">>))

\* Mutant of ExceptHandler: the handler returns a fresh record without the
\* results of the stages that ran.
ExceptHandler_DropsResults(wd, e) ==
    [query |-> wd.query, workflow |-> wd.workflow,
     researcher |-> EmptyDict, reviewer |-> EmptyDict, synthesizer |-> EmptyDict,
     questioner |-> EmptyDict, formatter |-> EmptyDict,
     status |-> "error", error |-> e]

\* Mutant of ExceptHandler: the exception's description is dropped.
ExceptHandler_LosesDescription(wd, e) ==
    SetKey(SetKey(wd, "status", "error"), "error", <<"Unknown error">>)

\* Mutant of ExceptHandler: the status is left as it was.
ExceptHandler_KeepsStatus(wd, e) == SetKey(wd, "error", e)

\* except Exception as e:
ExceptHandler(wd, e) == SetKey(SetKey(wd, "status", "error"), "error", e)

\* Mutant of Finish: the report is not copied into the record.
Finish_NoReport(wd, formatter_output) == SetKey(wd, "status", "success")

\* Mutant of Finish: the report is read from the record, not from the result.
Finish_ReadsRecord(wd, formatter_output) ==
    SetKey(SetKey(wd, "status", "success"), "report", Get(wd, "report", << >>))

\* the last two assignments after a successful FORMATTER stage
Finish(wd, formatter_output) ==
    SetKey(SetKey(wd, "status", "success"),
           "report", Get(formatter_output, "report", << >>))

\* Mutant of Stage: a failed stage does not end the run.
Stage_NoFailFast(out, slot, n, name, label, nextpc) ==
    /\ trace' = trace \o out.events
    /\ call' = call
    /\ IF out.raised
       THEN /\ workflow_data' = ExceptHandler(workflow_data, out.exc)
            /\ pc' = "returned"
       ELSE LET wd == StoreStage(workflow_data, slot, n, name, out.result)
            IN  IF nextpc = "returned"
                THEN /\ workflow_data' = IF NotSuccess(out.result)
                                         THEN StageFailed(wd, label, out.result)
                                         ELSE Finish(wd, out.result)
                     /\ pc' = "returned"
                ELSE /\ workflow_data' = IF NotSuccess(out.result)
                                         THEN StageFailed(wd, label, out.result)
                                         ELSE wd
                     /\ pc' = nextpc

\* Mutant of Stage: no try/except around the stages, an exception escapes.
Stage_Escapes(out, slot, n, name, label, nextpc) ==
    /\ trace' = trace \o out.events
    /\ call' = call
    /\ IF out.raised
       THEN /\ workflow_data' = workflow_data
            /\ pc' = "escaped"
       ELSE LET wd == StoreStage(workflow_data, slot, n, name, out.result)
            IN  IF NotSuccess(out.result)
                THEN /\ workflow_data' = StageFailed(wd, label, out.result)
                     /\ pc' = "returned"
                ELSE IF nextpc = "returned"
                THEN /\ workflow_data' = Finish(wd, out.result)
                     /\ pc' = "returned"
                ELSE /\ workflow_data' = wd
                     /\ pc' = nextpc

\* Mutant of Stage: a stage that failed or raised is run again.
Stage_Retries(out, slot, n, name, label, nextpc) ==
    /\ trace' = trace \o out.events
    /\ call' = call
    /\ IF out.raised \/ NotSuccess(out.result)
       THEN /\ workflow_data' = workflow_data
            /\ pc' = pc
       ELSE LET wd == StoreStage(workflow_data, slot, n, name, out.result)
            IN  IF nextpc = "returned"
                THEN /\ workflow_data' = Finish(wd, out.result)
                     /\ pc' = "returned"
                ELSE /\ workflow_data' = wd
                     /\ pc' = nextpc

\* One stage of the try block: the call of process has produced out.
Stage(out, slot, n, name, label, nextpc) ==
    /\ trace' = trace \o out.events
    /\ call' = call
    /\ IF out.raised
       THEN /\ workflow_data' = ExceptHandler(workflow_data, out.exc)
            /\ pc' = "returned"
       ELSE LET wd == StoreStage(workflow_data, slot, n, name, out.result)
            IN  IF NotSuccess(out.result)
                THEN /\ workflow_data' = StageFailed(wd, label, out.result)
                     /\ pc' = "returned"
                ELSE IF nextpc = "returned"
                THEN /\ workflow_data' = Finish(wd, out.result)
                     /\ pc' = "returned"
                ELSE /\ workflow_data' = wd
                     /\ pc' = nextpc

\* run_research_workflow is called: the record is created
Start ==
    /\ pc = "idle"
    /\ \E query \in Queries :
         workflow_data' = [query |-> query, workflow |-> << >>,
                           researcher |-> EmptyDict, reviewer |-> EmptyDict,
                           synthesizer |-> EmptyDict, questioner |-> EmptyDict,
                           formatter |-> EmptyDict, status |-> "in_progress"]
    /\ pc' = "step1"
    /\ UNCHANGED <<trace, call>>

\* STEP 1: RESEARCHER
Step1 ==
    /\ pc = "step1"
    /\ \E ret \in RetrievalOutcomes, gen \in GenerationOutcomes :
         Stage(ResearcherProcess([query |-> workflow_data.query], workflow_data.query, ret, gen),
               "researcher", 1, "RESEARCHER", "Researcher agent failed: ", "step2")

\* Mutant of Step2: the REVIEWER stage does not wait for the RESEARCHER stage.
Step2_Early ==
    /\ pc \in {"step1", "step2"}
    /\ \E ret \in RetrievalOutcomes, gen \in GenerationOutcomes :
         Stage(ReviewerProcess(workflow_data.researcher, workflow_data.query, ret, gen),
               "reviewer", 2, "REVIEWER", "Reviewer agent failed: ", "step3")

\* STEP 2: REVIEWER
Step2 ==
    /\ pc = "step2"
    /\ \E ret \in RetrievalOutcomes, gen \in GenerationOutcomes :
         Stage(ReviewerProcess(workflow_data.researcher, workflow_data.query, ret, gen),
               "reviewer", 2, "REVIEWER", "Reviewer agent failed: ", "step3")

\* STEP 3: SYNTHESIZER
Step3 ==
    /\ pc = "step3"
    /\ \E ret \in RetrievalOutcomes, gen \in GenerationOutcomes :
         Stage(SynthesizerProcess(workflow_data.reviewer, workflow_data.query, ret, gen),
               "synthesizer", 3, "SYNTHESIZER", "Synthesizer agent failed: ", "step4")

\* STEP 4: QUESTIONER
Step4 ==
    /\ pc = "step4"
    /\ \E ret \in RetrievalOutcomes, gen \in GenerationOutcomes :
         Stage(QuestionerProcess(workflow_data.synthesizer, workflow_data.query, ret, gen),
               "questioner", 4, "QUESTIONER", "Questioner agent failed: ", "step5")

\* Mutant of Step5: the FORMATTER stage does not wait for the QUESTIONER
\* stage.
Step5_Early ==
    /\ pc \in {"step4", "step5"}
    /\ \E gen \in GenerationOutcomes :
         Stage(FormatterProcess(workflow_data, workflow_data.query, gen),
               "formatter", 5, "FORMATTER", "Formatter agent failed: ", "returned")

\* STEP 5: FORMATTER
Step5 ==
    /\ pc = "step5"
    /\ \E gen \in GenerationOutcomes :
         Stage(FormatterProcess(workflow_data, workflow_data.query, gen),
               "formatter", 5, "FORMATTER", "Formatter agent failed: ", "returned")

Init ==
    /\ pc = "idle"
    /\ workflow_data = EmptyDict
    /\ trace = << >>
    /\ call = EmptyDict

Next == Start \/ Step1 \/ Step2 \/ Step3 \/ Step4 \/ Step5

Spec == Init /\ [][Next]_vars

\* Every call of a collaborator returns or raises, so a started step completes.
FairSpec == Spec /\ WF_vars(Next)

(***************************************************************************)
(* Direct calls of the agents.  process is a public method: a caller may   *)
(* hand it any predecessor result, also one the orchestrator would never   *)
(* pass on.  call records the direct call: its arguments, what the         *)
(* collaborators answered and what the call produced; pc becomes "called". *)
(***************************************************************************)
OkRetrievals == {r \in RetrievalOutcomes : r.kind = "ok"}

\* Results a ResearcherAgent can return, and {} for a caller's empty input
ResearcherResults ==
    {ResearcherProcess([query |-> q], q, ret, gen).result :
        q \in Queries, ret \in RetrievalOutcomes, gen \in GenerationOutcomes}

ReviewerInputs == ResearcherResults

ReviewerResults ==
    {ReviewerProcess(i, q, ret, gen).result :
        i \in ReviewerInputs, q \in Queries, ret \in RetrievalOutcomes,
        gen \in GenerationOutcomes}

\* the reviewer results built on one researcher analysis and one citation list
SynthesizerInputs ==
    {r \in ReviewerResults :
        "sources" \in DOMAIN r => (Len(r.sources) <= 1 /\ r.researcher_analysis = TextReport)}

SynthesizerResults ==
    {SynthesizerProcess(i, q, ret, gen).result :
        i \in SynthesizerInputs, q \in Queries, ret \in OkRetrievals,
        gen \in GenerationOutcomes}

QuestionerInputs == SynthesizerResults

QuestionerResults ==
    {QuestionerProcess(i, q, ret, gen).result :
        i \in QuestionerInputs, q \in Queries, ret \in OkRetrievals,
        gen \in GenerationOutcomes}

\* workflow records in progress, with any questioner result in the slot
FormatterInputs ==
    {[query |-> q, workflow |-> << >>,
      researcher |-> r, reviewer |-> EmptyDict, synthesizer |-> EmptyDict,
      questioner |-> qu, formatter |-> EmptyDict, status |-> "in_progress"] :
        q \in Queries, r \in {x \in ResearcherResults : ~NotSuccess(x) => x.analysis = TextReport},
        qu \in QuestionerResults}

DirectCall(name, input_data, query, ret, gen, out) ==
    /\ call' = [agent |-> name, input_data |-> input_data, query |-> query,
                ret |-> ret, gen |-> gen, out |-> out]
    /\ trace' = out.events
    /\ pc' = "called"
    /\ UNCHANGED workflow_data

CallResearcher ==
    /\ pc = "idle"
    /\ \E q \in Queries, ret \in RetrievalOutcomes, gen \in GenerationOutcomes :
           DirectCall("RESEARCHER", [query |-> q], q, ret, gen,
                      ResearcherProcess([query |-> q], q, ret, gen))

CallReviewer ==
    /\ pc = "idle"
    /\ \E i \in ReviewerInputs, q \in Queries, ret \in RetrievalOutcomes,
          gen \in GenerationOutcomes :
           DirectCall("REVIEWER", i, q, ret, gen, ReviewerProcess(i, q, ret, gen))

CallSynthesizer ==
    /\ pc = "idle"
    /\ \E i \in SynthesizerInputs, q \in Queries, ret \in RetrievalOutcomes,
          gen \in GenerationOutcomes :
           DirectCall("SYNTHESIZER", i, q, ret, gen, SynthesizerProcess(i, q, ret, gen))

CallQuestioner ==
    /\ pc = "idle"
    /\ \E i \in QuestionerInputs, q \in Queries, ret \in RetrievalOutcomes,
          gen \in GenerationOutcomes :
           DirectCall("QUESTIONER", i, q, ret, gen, QuestionerProcess(i, q, ret, gen))

CallFormatter ==
    /\ pc = "idle"
    /\ \E i \in FormatterInputs, q \in Queries, gen \in GenerationOutcomes :
           DirectCall("FORMATTER", i, q, EmptyDict, gen, FormatterProcess(i, q, gen))

AgentNext ==
    CallResearcher \/ CallReviewer \/ CallSynthesizer \/ CallQuestioner \/ CallFormatter

AgentSpec == Init /\ [][AgentNext]_vars

(***************************************************************************)
(* Direct calls of the extraction heuristics.  The heuristics are pure     *)
(* functions of a generated text; a text here is up to one header line,    *)
(* one line repeated up to MaxRepeat times, up to one separator line, and  *)
(* the same line up to MaxTail more times, joined by newlines.  call       *)
(* records the heuristic, the text and the list returned; pc becomes       *)
(* "extracted".                                                            *)
(***************************************************************************)
MaxRepeat == 11

MaxTail == 1

\* "- a"
LineBullet ==
    <<"-", " ", "a">>

\* " 1. b "
LineNumbered ==
    <<" ", "1", ".", " ", "b", " ">>

\* "plain"
LinePlain ==
    <<"p", "l", "a", "i", "n">>

\* "H1: hypothesis on the effect?"
LineHypothesis ==
    <<"H", "1", ":", " ", "h", "y", "p", "o", "t", "h", "e", "s", "i", "s",
      " ", "o", "n", " ", "t", "h", "e", " ", "e", "f", "f", "e", "c", "t",
      "?">>

\* "H4 label without the keyword"
LineH4 ==
    <<"H", "4", " ", "l", "a", "b", "e", "l", " ", "w", "i", "t", "h", "o",
      "u", "t", " ", "t", "h", "e", " ", "k", "e", "y", "w", "o", "r", "d">>

\* "h2 short"
LineShortLabel ==
    <<"h", "2", " ", "s", "h", "o", "r", "t">>

\* "Gap: pattern and relationship of insight?"
LineGap ==
    <<"G", "a", "p", ":", " ", "p", "a", "t", "t", "e", "r", "n", " ", "a",
      "n", "d", " ", "r", "e", "l", "a", "t", "i", "o", "n", "s", "h", "i",
      "p", " ", "o", "f", " ", "i", "n", "s", "i", "g", "h", "t", "?">>

\* "why so?"
LineShortQuestion ==
    <<"w", "h", "y", " ", "s", "o", "?">>

\* "- GAP in the evidence base?"
LineBulletGap ==
    <<"-", " ", "G", "A", "P", " ", "i", "n", " ", "t", "h", "e", " ", "e",
      "v", "i", "d", "e", "n", "c", "e", " ", "b", "a", "s", "e", "?">>

\* "- Strengths"
HeaderStrengths ==
    <<"-", " ", "S", "t", "r", "e", "n", "g", "t", "h", "s">>

\* "2. Weaknesses:"
HeaderWeaknesses ==
    <<"2", ".", " ", "W", "e", "a", "k", "n", "e", "s", "s", "e", "s", ":">>

\* "Strengths - and weaknesses"
HeaderBoth ==
    <<"S", "t", "r", "e", "n", "g", "t", "h", "s", " ", "-", " ", "a", "n",
      "d", " ", "w", "e", "a", "k", "n", "e", "s", "s", "e", "s">>

\* a line of prose of 51 characters
LineProse == Rep("x", 51)

\* a bullet of 52 characters
LineLongBullet == <<"-", " ">> \o Rep("y", 50)

LinePool ==
    {LineBullet, LineNumbered, << >>, LinePlain, LineProse, LineLongBullet,
     LineHypothesis, LineH4, LineShortLabel, LineGap, LineShortQuestion, LineBulletGap}

\* no header line, or one
Headers == {<< >>, <<HeaderStrengths>>, <<HeaderWeaknesses>>, <<HeaderBoth>>}

\* a line of prose of 51 characters with a hyphen in it
LineHyphenProse == Rep("z", 25) \o <<"-">> \o Rep("z", 25)

\* no separator line, a long line of prose (without and with a hyphen), an
\* empty line, or a second header line
Separators ==
    {<< >>, <<LineProse>>, <<LineHyphenProse>>, << << >> >>, <<HeaderStrengths>>}

\* '\n'.join(lines)
RECURSIVE join(_)
join(lines) ==
    IF lines = << >> THEN << >>
    ELSE IF Len(lines) = 1 THEN lines[1]
    ELSE lines[1] \o <<NL>> \o join(Tail(lines))

ExtractionTexts ==
    {join(h \o Rep(a, n) \o s \o Rep(a, m)) :
        h \in Headers, a \in LinePool, n \in 0..MaxRepeat, s \in Separators, m \in 0..MaxTail}

\* the heuristic named fn, applied to a text
extract(fn, text) ==
    CASE fn = "findings" -> _extract_findings(text)
      [] fn = "strengths" -> _extract_section(text, KwStrengths)
      [] fn = "weaknesses" -> _extract_section(text, KwWeaknesses)
      [] fn = "hypotheses" -> _extract_hypotheses(text)
      [] fn = "insights" -> _extract_insights(text)
      [] fn = "gaps" -> _extract_gaps(text)
      [] fn = "questions" -> _extract_questions(text)

\* whether the heuristic named fn raises on a text
raises(fn, text) ==
    CASE fn = "findings" -> _extract_findings_raises(text)
      [] fn = "strengths" -> _extract_section_raises(text, KwStrengths)
      [] fn = "weaknesses" -> _extract_section_raises(text, KwWeaknesses)
      [] OTHER -> FALSE

ExtractCall(fn, text, out) ==
    /\ call' = [fn |-> fn, text |-> text, out |-> out, raised |-> raises(fn, text)]
    /\ pc' = "extracted"
    /\ UNCHANGED <<workflow_data, trace>>

ExtractFindings ==
    /\ pc = "idle"
    /\ \E text \in ExtractionTexts : ExtractCall("findings", text, _extract_findings(text))

ExtractStrengths ==
    /\ pc = "idle"
    /\ \E text \in ExtractionTexts :
           ExtractCall("strengths", text, _extract_section(text, KwStrengths))

ExtractWeaknesses ==
    /\ pc = "idle"
    /\ \E text \in ExtractionTexts :
           ExtractCall("weaknesses", text, _extract_section(text, KwWeaknesses))

ExtractHypotheses ==
    /\ pc = "idle"
    /\ \E text \in ExtractionTexts :
           ExtractCall("hypotheses", text, _extract_hypotheses(text))

ExtractInsights ==
    /\ pc = "idle"
    /\ \E text \in ExtractionTexts : ExtractCall("insights", text, _extract_insights(text))

ExtractGaps ==
    /\ pc = "idle"
    /\ \E text \in ExtractionTexts : ExtractCall("gaps", text, _extract_gaps(text))

ExtractQuestions ==
    /\ pc = "idle"
    /\ \E text \in ExtractionTexts : ExtractCall("questions", text, _extract_questions(text))

\* The same heuristic is run again, on the text made of the list it returned,
\* one item per line; first keeps the list of the first call.
ReExtract ==
    /\ pc = "extracted"
    /\ call' = [fn |-> call.fn, text |-> join(call.out),
                out |-> extract(call.fn, join(call.out)),
                raised |-> raises(call.fn, join(call.out)), first |-> call.out]
    /\ pc' = "re-extracted"
    /\ UNCHANGED <<workflow_data, trace>>

ExtractNext ==
    \/ ExtractFindings \/ ExtractStrengths \/ ExtractWeaknesses \/ ExtractHypotheses
    \/ ExtractInsights \/ ExtractGaps \/ ExtractQuestions \/ ReExtract

ExtractSpec == Init /\ [][ExtractNext]_vars

(***************************************************************************)
(* Runs and direct calls together: a behaviour is either a run of the      *)
(* orchestrator or one direct call of an agent.                            *)
(***************************************************************************)
AnyNext == Next \/ AgentNext

AnySpec == Init /\ [][AnyNext]_vars

(***************************************************************************)
(* All direct calls: a behaviour is one direct call of an agent's process, *)
(* or one direct call of a heuristic and its repetition.                   *)
(***************************************************************************)
DirectNext == AgentNext \/ ExtractNext

DirectSpec == Init /\ [][DirectNext]_vars

(***************************************************************************)
(* The auxiliary views (multi_agent_system.py, get_workflow_summary and    *)
(* save_report).  Both take the record a run returned.  A text is a        *)
(* sequence of atoms; the file save_report writes is the sequence of the   *)
(* texts given to f.write, in order.  call holds the view: its name, the   *)
(* record it was given, what it returned or wrote, and its warning; pc is  *)
(* "viewed" after it.                                                      *)
(***************************************************************************)
DigitChars == <<"0", "1", "2", "3", "4", "5", "6", "7", "8", "9">>

\* str(n) of a non-negative int
RECURSIVE str(_)
str(n) == IF n < 10 THEN <<DigitChars[n + 1]>>
          ELSE str(n \div 10) \o <<DigitChars[(n % 10) + 1]>>

\* "="*70 + "\n"
Rule == Rep("=", 70) \o <<NL>>

\* get_workflow_summary: the record after the call and the returned text
get_workflow_summary(wd) ==
    IF NotSuccess(wd)
    THEN [workflow_data |-> wd,
          ret |-> <<"Workflow failed: ">> \o Get(wd, "error", <<"Unknown error">>)]
    ELSE
      LET researcher == Get(wd, "researcher", EmptyDict)
          reviewer == Get(wd, "reviewer", EmptyDict)
          synthesizer == Get(wd, "synthesizer", EmptyDict)
          questioner == Get(wd, "questioner", EmptyDict)
          formatter == Get(wd, "formatter", EmptyDict)
      IN  [workflow_data |-> wd,
           ret |-> <<NL, "WORKFLOW SUMMARY", NL, "================", NL, "Query: ">>
                   \o Get(wd, "query", <<"N/A">>)
                   \o <<NL, "Status: ", Get(wd, "status", "N/A"), NL, NL, "Agent Results:", NL,
                        "- RESEARCHER: ", Get(researcher, "status", "N/A"), " (">>
                   \o str(Get(researcher, "num_sources", 0)) \o <<" sources)", NL,
                        "- REVIEWER: ", Get(reviewer, "status", "N/A"), NL,
                        "- SYNTHESIZER: ", Get(synthesizer, "status", "N/A"), " (">>
                   \o str(Len(Get(synthesizer, "hypotheses", << >>))) \o <<" hypotheses)", NL,
                        "- QUESTIONER: ", Get(questioner, "status", "N/A"), " (">>
                   \o str(Len(Get(questioner, "questions", << >>))) \o <<" questions)", NL,
                        "- FORMATTER: ", Get(formatter, "status", "N/A"), NL>>]

\* the f.write calls of one source of the SOURCES part
SourceWrites(i, source) ==
    << str(i) \o <<". ">> \o Get(source, "source", <<"Unknown">>) \o <<NL>> >>
    \o (IF "page" \in DOMAIN source /\ source.page # 0
        THEN << <<"   Page: ">> \o str(source.page) \o <<NL>> >>
        ELSE << >>)
    \o << <<NL>> >>

RECURSIVE SourcesWrites(_, _)
SourcesWrites(sources, i) ==
    IF i > Len(sources) THEN << >>
    ELSE SourceWrites(i, sources[i]) \o SourcesWrites(sources, i + 1)

\* the f.write calls of save_report, in order
ReportWrites(wd, report) ==
    << Rule, <<"RESEARCH REPORT", NL>>, Rule \o <<NL>>,
       <<"Research Query: ">> \o Get(wd, "query", <<"N/A">>) \o <<NL, NL>>,
       Rule \o <<NL>>,
       report,
       <<NL, NL>> \o Rule, <<"SOURCES", NL>>, Rule \o <<NL>> >>
    \o SourcesWrites(Get(Get(wd, "researcher", EmptyDict), "sources", << >>), 1)

\* What the file system does to save_report: open raises (OpenRaises), or
\* the file is opened, hence created or truncated, and io of the f.write
\* calls take effect: all of them (NumWrites), or none because the first
\* one raises.
OpenRaises == -1

NumWrites(wd) == Len(ReportWrites(wd, Get(wd, "report", << >>)))

IOOutcomes(wd) == {OpenRaises, 0, NumWrites(wd)}

\* Mutant of save_report: the record is marked as saved.
save_report_MarksSaved(wd, io) ==
    [workflow_data |-> SetKey(wd, "saved", TRUE), opened |-> FALSE, file |-> << >>,
     warning |-> << >>]

\* save_report: the record after the call, whether the destination was
\* opened for writing, what was written to it, and the warning logged
save_report(wd, io) ==
    IF NotSuccess(wd)
    THEN [workflow_data |-> wd, opened |-> FALSE, file |-> << >>,
          warning |-> <<"Cannot save report: workflow did not complete successfully">>]
    ELSE
      LET report == Get(wd, "report", << >>)
      IN  IF report = << >>
          THEN [workflow_data |-> wd, opened |-> FALSE, file |-> << >>,
                warning |-> <<"No report to save">>]
          ELSE IF io = OpenRaises
          THEN [workflow_data |-> wd, opened |-> FALSE, file |-> << >>,
                warning |-> << >>]
          ELSE [workflow_data |-> wd, opened |-> TRUE,
                file |-> SubSeq(ReportWrites(wd, report), 1, io),
                warning |-> << >>]

\* get_workflow_summary(workflow_data) on the record a run returned
GetWorkflowSummary ==
    /\ pc = "returned"
    /\ LET out == get_workflow_summary(workflow_data)
       IN  /\ call' = [fn |-> "get_workflow_summary", given |-> workflow_data,
                       ret |-> out.ret, opened |-> FALSE, file |-> << >>,
                       warning |-> << >>]
           /\ workflow_data' = out.workflow_data
    /\ pc' = "viewed"
    /\ UNCHANGED trace

\* save_report(workflow_data) on the record a run returned
SaveReport ==
    /\ pc = "returned"
    /\ \E io \in IOOutcomes(workflow_data) :
         LET out == save_report(workflow_data, io)
         IN  /\ call' = [fn |-> "save_report", given |-> workflow_data,
                         ret |-> << >>, opened |-> out.opened, file |-> out.file,
                         warning |-> out.warning]
             /\ workflow_data' = out.workflow_data
    /\ pc' = "viewed"
    /\ UNCHANGED trace

ViewNext == GetWorkflowSummary \/ SaveReport

\* A run, then a view of the record it returned
RunAndViewNext == Next \/ ViewNext

ViewSpec == Init /\ [][RunAndViewNext]_vars

(***************************************************************************)
(* Reading the history.                                                    *)
(***************************************************************************)
AgentNames == <<"RESEARCHER", "REVIEWER", "SYNTHESIZER", "QUESTIONER", "FORMATTER">>

\* positions of the events of one kind of one agent
EventsOf(e, name) == {j \in 1..Len(trace) : trace[j].ev = e /\ trace[j].agent = name}

\* stage i's process returned a result whose status is not "success"
StageFailedAt(i) ==
    \E j \in EventsOf("return", AgentNames[i]) : NotSuccess(trace[j].arg)

\* stage i's process returned a result whose status is "success"
StageSucceededAt(i) ==
    \E j \in EventsOf("return", AgentNames[i]) : ~NotSuccess(trace[j].arg)

\* stage i's process was invoked
Invoked(i) == EventsOf("process", AgentNames[i]) # {}

\* the run ended in the orchestrator's except clause
ExceptionCaught == Len(trace) > 0 /\ trace[Len(trace)].ev = "raise"

(***************************************************************************)
(* C1. Fail-fast: when stage i is the first whose result has a status      *)
(* other than "success", the returned record has status "error", its log   *)
(* has exactly i entries (1..i-1 "success", entry i the failing status),   *)
(* and no later stage's process was invoked.                               *)
(***************************************************************************)
C1_FailFast ==
    \A i \in 1..5 :
        (pc = "returned" /\ StageFailedAt(i) /\ \A h \in 1..(i - 1) : ~StageFailedAt(h))
        => /\ workflow_data.status = "error"
           /\ Len(workflow_data.workflow) = i
           /\ \A h \in 1..(i - 1) : workflow_data.workflow[h].status = "success"
           /\ \A j \in EventsOf("return", AgentNames[i]) :
                workflow_data.workflow[i].status = Get(trace[j].arg, "status", "unknown")
           /\ \A h \in (i + 1)..5 : ~Invoked(h)

\* a run in which the SYNTHESIZER was the first stage to fail has returned
C1_Witness ==
    /\ pc = "returned"
    /\ StageFailedAt(3)
    /\ StageSucceededAt(1) /\ StageSucceededAt(2)

(***************************************************************************)
(* C2. When the retrieval collaborator returns zero sources to the         *)
(* RESEARCHER, the run ends with status "error", no stage after the        *)
(* RESEARCHER runs, and the log has exactly one entry.                     *)
(***************************************************************************)
ResearcherRetrievedNothing ==
    \E j \in EventsOf("retrieved", "RESEARCHER") : trace[j].arg = 0

C2_EmptyRetrievalFatal ==
    ResearcherRetrievedNothing
    => /\ pc = "returned"
       /\ workflow_data.status = "error"
       /\ Len(workflow_data.workflow) = 1
       /\ \A h \in 2..5 : ~Invoked(h)

C2_Witness == pc = "returned" /\ ResearcherRetrievedNothing

(***************************************************************************)
(* C3. Short-circuit of the dependent stages: REVIEWER, SYNTHESIZER,       *)
(* QUESTIONER and FORMATTER, called with a predecessor result whose status *)
(* is not "success", return status "error" and make no call to the         *)
(* generation collaborator.  (The FORMATTER's predecessor result is the    *)
(* questioner slot of the record it is given.)                             *)
(***************************************************************************)
Predecessor(c) ==
    IF c.agent = "FORMATTER" THEN Get(c.input_data, "questioner", EmptyDict)
    ELSE c.input_data

C3_ShortCircuit ==
    (pc = "called" /\ call.agent # "RESEARCHER" /\ NotSuccess(Predecessor(call)))
    => /\ ~call.out.raised
       /\ Get(call.out.result, "status", "unknown") = "error"
       /\ EventsOf("generate", call.agent) = {}

(***************************************************************************)
(* C4. No exception escapes run_research_workflow: when a collaborator     *)
(* raises outside an agent's own catch, the run still returns the record,  *)
(* with status "error" and error equal to the exception's description.     *)
(***************************************************************************)
C4_NoEscape ==
    ExceptionCaught
    => /\ pc = "returned"
       /\ workflow_data.status = "error"
       /\ "error" \in DOMAIN workflow_data
       /\ workflow_data.error = trace[Len(trace)].arg

\* the REVIEWER's retrieval raised with a non-empty description
C4_Witness ==
    /\ pc = "returned"
    /\ ExceptionCaught
    /\ trace[Len(trace)].agent = "REVIEWER"
    /\ trace[Len(trace)].arg # << >>

(***************************************************************************)
(* C5. As claimed: whenever a run ends with status "error", the error      *)
(* field names the failing agent and carries that stage's failure message. *)
(***************************************************************************)
Labels == <<"Researcher agent failed: ", "Reviewer agent failed: ",
            "Synthesizer agent failed: ", "Questioner agent failed: ",
            "Formatter agent failed: ">>

StageNumber(name) == CHOOSE i \in 1..5 : AgentNames[i] = name

\* the last event of an ended run: the failing stage's return or raise
LastEvent == trace[Len(trace)]

FailureMessage ==
    IF LastEvent.ev = "raise" THEN LastEvent.arg
    ELSE Get(LastEvent.arg, "message", <<"Unknown error">>)

C5_ErrorNamesStage ==
    (pc = "returned" /\ workflow_data.status = "error")
    => workflow_data.error = <<Labels[StageNumber(LastEvent.agent)]>> \o FailureMessage

(***************************************************************************)
(* C5, amended. When a stage returned a result that is not a success, the  *)
(* error field is that agent's label followed by the result's message;     *)
(* when an exception was caught at the orchestrator boundary, the error    *)
(* field is exactly the exception's description, with no agent's label.    *)
(***************************************************************************)
C5_ErrorField ==
    (pc = "returned" /\ workflow_data.status = "error")
    => IF LastEvent.ev = "return"
       THEN /\ NotSuccess(LastEvent.arg)
            /\ workflow_data.error =
                 <<Labels[StageNumber(LastEvent.agent)]>> \o LastEvent.arg.message
       ELSE /\ LastEvent.ev = "raise"
            /\ workflow_data.error = LastEvent.arg

\* the QUESTIONER's generation failed with a non-empty description
C5_Witness ==
    /\ pc = "returned"
    /\ workflow_data.status = "error"
    /\ LastEvent.ev = "return"
    /\ LastEvent.agent = "QUESTIONER"
    /\ EventsOf("generate", "QUESTIONER") # {}
    /\ LastEvent.arg.message # << >>

(***************************************************************************)
(* C6. The returned record has status "success" exactly when all five      *)
(* stages returned a result with status "success", and then its report is  *)
(* the report of the FORMATTER's result.                                   *)
(***************************************************************************)
C6_SuccessIffAllFive ==
    pc = "returned"
    => /\ (workflow_data.status = "success") <=> (\A i \in 1..5 : StageSucceededAt(i))
       /\ workflow_data.status = "success"
          => /\ "report" \in DOMAIN workflow_data
             /\ \A j \in EventsOf("return", "FORMATTER") :
                  workflow_data.report = trace[j].arg.report

C6_Witness ==
    /\ pc = "returned"
    /\ workflow_data.status = "success"
    /\ workflow_data.report # << >>

(***************************************************************************)
(* C7. Status lifecycle: the record is created "in_progress", stays        *)
(* "in_progress" while stages run, and changes exactly once, on the step   *)
(* that returns it, to "success" or "error".                               *)
(***************************************************************************)
StepPcs == {"step1", "step2", "step3", "step4", "step5"}

C7_StatusLifecycle ==
    [][/\ pc = "idle" => workflow_data'.status = "in_progress"
       /\ pc' \in StepPcs => workflow_data'.status = "in_progress"
       /\ pc' = "returned"
          => /\ workflow_data.status = "in_progress"
             /\ workflow_data'.status \in {"success", "error"}]_vars

\* a record that stayed in progress through four stages and ended in error
C7_Witness ==
    /\ pc = "returned"
    /\ Len(workflow_data.workflow) = 5
    /\ workflow_data.status = "error"

(***************************************************************************)
(* C8. Termination: every started run returns the record with a terminal   *)
(* status, after at most five invocations of process.                      *)
(***************************************************************************)
NumInvocations == Cardinality({j \in 1..Len(trace) : trace[j].ev = "process"})

C8_Termination ==
    /\ (pc = "step1") ~> (pc = "returned" /\ workflow_data.status \in {"success", "error"})
    /\ [](NumInvocations <= 5)

C8_Witness == pc = "returned" /\ NumInvocations = 5

(***************************************************************************)
(* C9. As claimed: the log of the returned record has exactly one entry    *)
(* for every stage whose process was invoked, in invocation order.         *)
(***************************************************************************)
AgentsOf(events) == [h \in 1..Len(events) |-> events[h].agent]

InvokedAgents == AgentsOf(SelectSeq(trace, LAMBDA e : e.ev = "process"))

C9_LogOfAttempted ==
    pc = "returned" => AgentsOf(workflow_data.workflow) = InvokedAgents

(***************************************************************************)
(* C9, amended. The log has exactly one entry, in order, for every stage   *)
(* whose process returned a result, with that result's status and the      *)
(* stage's number; a stage whose process raised has no entry.              *)
(***************************************************************************)
ReturnEvents == SelectSeq(trace, LAMBDA e : e.ev = "return")

C9_LogOfReturned ==
    pc \in StepPcs \cup {"returned"}
    => workflow_data.workflow =
         [h \in 1..Len(ReturnEvents) |->
            [step |-> StageNumber(ReturnEvents[h].agent),
             agent |-> ReturnEvents[h].agent,
             status |-> Get(ReturnEvents[h].arg, "status", "unknown")]]

\* the SYNTHESIZER was invoked and raised: two entries, three invocations
C9_Witness ==
    /\ pc = "returned"
    /\ ExceptionCaught
    /\ LastEvent.agent = "SYNTHESIZER"
    /\ Len(workflow_data.workflow) = 2

(***************************************************************************)
(* C10. As claimed: every result an agent returns has, with status         *)
(* "error", empty or absent payload fields and a non-empty message, and    *)
(* with status "success" a non-empty mandatory payload field.              *)
(***************************************************************************)
Mandatory(name) ==
    CASE name = "RESEARCHER" -> "analysis"
      [] name = "REVIEWER" -> "critique"
      [] name = "SYNTHESIZER" -> "synthesis"
      [] name = "QUESTIONER" -> "gap_analysis"
      [] name = "FORMATTER" -> "report"

PayloadEmpty(r) == \A k \in (DOMAIN r) \ {"agent", "status", "message"} : r[k] = << >>

C10_ResultInvariant ==
    (pc = "called" /\ ~call.out.raised)
    => LET r == call.out.result
       IN  /\ r.status = "error"
              => PayloadEmpty(r) /\ "message" \in DOMAIN r /\ r.message # << >>
           /\ r.status = "success"
              => Mandatory(call.agent) \in DOMAIN r /\ r[Mandatory(call.agent)] # << >>

(***************************************************************************)
(* C10, amended. With status "error" the payload fields are empty or       *)
(* absent and message is present, and non-empty unless it is the           *)
(* description of a generation failure that has an empty description;      *)
(* with status "success" the mandatory payload field is present and is the *)
(* generated text, so non-empty unless the generated text is empty.        *)
(***************************************************************************)
C10_ResultShape ==
    (pc = "called" /\ ~call.out.raised)
    => LET r == call.out.result
       IN  /\ r.status \in {"error", "success"}
           /\ r.status = "error"
              => /\ PayloadEmpty(r)
                 /\ "message" \in DOMAIN r
                 /\ r.message = << >>
                    => /\ EventsOf("generate", call.agent) # {}
                       /\ call.gen.kind = "raise"
                       /\ call.gen.desc = << >>
           /\ r.status = "success"
              => /\ Mandatory(call.agent) \in DOMAIN r
                 /\ call.gen.kind = "ok"
                 /\ r[Mandatory(call.agent)] = call.gen.text

\* a success whose mandatory field is empty, and an error whose message is
C10_Witness ==
    /\ pc = "called"
    /\ ~call.out.raised
    /\ \/ call.out.result.status = "success" /\ call.gen.kind = "ok" /\ call.gen.text = << >>
       \/ call.out.result.status = "error" /\ call.out.result.message = << >>

(***************************************************************************)
(* C11. When the generation collaborator raises during a call of process,  *)
(* of any of the five agents, the call does not raise: it returns a result *)
(* with status "error" whose message is the description of the failure.    *)
(***************************************************************************)
GenerationRaised ==
    /\ pc = "called"
    /\ EventsOf("generate", call.agent) # {}
    /\ call.gen.kind = "raise"

C11_GenerationFailureCaught ==
    GenerationRaised
    => /\ ~call.out.raised
       /\ LastEvent.ev = "return"
       /\ LastEvent.agent = call.agent
       /\ call.out.result.status = "error"
       /\ "message" \in DOMAIN call.out.result
       /\ call.out.result.message = call.gen.desc

C11_Witness ==
    /\ GenerationRaised
    /\ call.agent = "SYNTHESIZER"
    /\ call.gen.desc = <<"quota exceeded">>
    /\ call.out.result.message = <<"quota exceeded">>

(***************************************************************************)
(* C12. Nothing is retried.  In a run, each agent's process is invoked at  *)
(* most once, and an agent makes at most one request to the retrieval      *)
(* collaborator and at most one call of the generation collaborator,       *)
(* whether or not a call failed.                                           *)
(***************************************************************************)
Count(e, name) == Cardinality(EventsOf(e, name))

C12_NoRetry ==
    \A i \in 1..5 :
        /\ Count("process", AgentNames[i]) <= 1
        /\ Count("retrieve", AgentNames[i]) <= 1
        /\ Count("generate", AgentNames[i]) <= 1
        /\ Count("return", AgentNames[i]) + Count("raise", AgentNames[i]) <= 1

\* a run that ended because the third stage's generation failed, after that
\* stage was invoked once and called each collaborator once
C12_Witness ==
    /\ pc = "returned"
    /\ workflow_data.status = "error"
    /\ StageFailedAt(3)
    /\ Count("process", "SYNTHESIZER") = 1
    /\ Count("retrieve", "SYNTHESIZER") = 1
    /\ Count("generate", "SYNTHESIZER") = 1

(***************************************************************************)
(* C13. Strict sequencing.  The stages are invoked in the order            *)
(* RESEARCHER, REVIEWER, SYNTHESIZER, QUESTIONER, FORMATTER; a stage after *)
(* the first is invoked only directly after its predecessor returned a     *)
(* result with status "success"; and the step taken at stage i goes either *)
(* to the next stage (after FORMATTER: returns the record with status      *)
(* "success"), when stage i returned success, or returns the record with   *)
(* status "error", when stage i returned another status or raised.         *)
(***************************************************************************)
StepPc == <<"step1", "step2", "step3", "step4", "step5">>

AfterSuccess(i) == IF i = 5 THEN "returned" ELSE StepPc[i + 1]

\* the invocations of process in the history, in order
Invocations == SelectSeq(trace, LAMBDA e : e.ev = "process")

InFixedOrder ==
    /\ Len(Invocations) <= 5
    /\ \A n \in 1..Len(Invocations) : Invocations[n].agent = AgentNames[n]
    /\ \A j \in 1..Len(trace) :
          trace[j].ev = "process"
          => IF trace[j].agent = "RESEARCHER" THEN j = 1
             ELSE /\ j > 1
                  /\ trace[j - 1].ev = "return"
                  /\ \E i \in 1..4 : /\ trace[j - 1].agent = AgentNames[i]
                                     /\ trace[j].agent = AgentNames[i + 1]
                  /\ ~NotSuccess(trace[j - 1].arg)

OneSuccessOneFailure ==
    \A i \in 1..5 :
        pc = StepPc[i]
        => /\ LastEvent'.agent = AgentNames[i]
           /\ \/ /\ LastEvent'.ev = "return"
                 /\ ~NotSuccess(LastEvent'.arg)
                 /\ pc' = AfterSuccess(i)
                 /\ workflow_data'.status = IF i = 5 THEN "success" ELSE "in_progress"
              \/ /\ \/ LastEvent'.ev = "raise"
                    \/ LastEvent'.ev = "return" /\ NotSuccess(LastEvent'.arg)
                 /\ pc' = "returned"
                 /\ workflow_data'.status = "error"

C13_StrictSequencing == []InFixedOrder /\ [][OneSuccessOneFailure]_vars

\* the fourth stage was reached through three successes and then failed
C13_Witness ==
    /\ pc = "returned"
    /\ Len(Invocations) = 4
    /\ StageSucceededAt(3)
    /\ StageFailedAt(4)
    /\ workflow_data.status = "error"

(***************************************************************************)
(* C14. End-to-end success.  A run in which the RESEARCHER's retrieval     *)
(* returned at least one source, no call of a collaborator raised and      *)
(* every generation returned a non-empty text, ends with status "success", *)
(* a log of exactly the five entries of steps 1..5 in the order            *)
(* RESEARCHER .. FORMATTER, all with status "success", and a non-empty     *)
(* report.                                                                 *)
(***************************************************************************)
AllCollaboratorsAnswered ==
    /\ \E j \in EventsOf("retrieved", "RESEARCHER") : trace[j].arg >= 1
    /\ \A j \in 1..Len(trace) :
          /\ trace[j].ev # "raise"
          /\ trace[j].ev = "generate"
             => trace[j].arg.kind = "ok" /\ trace[j].arg.text # << >>

C14_EndToEndSuccess ==
    (pc = "returned" /\ AllCollaboratorsAnswered)
    => /\ workflow_data.status = "success"
       /\ workflow_data.workflow =
              [i \in 1..5 |-> [step |-> i, agent |-> AgentNames[i], status |-> "success"]]
       /\ "report" \in DOMAIN workflow_data
       /\ workflow_data.report # << >>
       /\ \A i \in 1..5 : Count("generate", AgentNames[i]) = 1

C14_Witness ==
    /\ pc = "returned"
    /\ AllCollaboratorsAnswered
    /\ Count("generate", "FORMATTER") = 1
    /\ workflow_data.status = "success"
    /\ Len(workflow_data.workflow) = 5

(***************************************************************************)
(* C15. As claimed: the record of a successful run has a top-level field   *)
(* sources, equal to the sources of the result the RESEARCHER returned.    *)
(***************************************************************************)
\* the result stage i's process returned (stage i has returned)
ResultOf(i) == trace[CHOOSE j \in EventsOf("return", AgentNames[i]) : TRUE].arg

SuccessfulRun == pc = "returned" /\ workflow_data.status = "success"

C15_TopLevelSources ==
    SuccessfulRun
    => /\ "sources" \in DOMAIN workflow_data
       /\ workflow_data.sources = ResultOf(1).sources

(***************************************************************************)
(* C15, amended.  The record of a successful run carries the sources of    *)
(* the result the RESEARCHER returned inside its stage results: in the     *)
(* researcher slot, and as the sources field of the formatter slot.  The   *)
(* record itself has the fields it was created with and report, and no     *)
(* field sources.                                                          *)
(***************************************************************************)
C15_SourcesInSlots ==
    SuccessfulRun
    => /\ Len(ResultOf(1).sources) >= 1
       /\ workflow_data.researcher.sources = ResultOf(1).sources
       /\ workflow_data.formatter.sources = ResultOf(1).sources
       /\ DOMAIN workflow_data =
              {"query", "workflow", "researcher", "reviewer", "synthesizer",
               "questioner", "formatter", "status", "report"}

\* a successful run whose reviewer result holds more sources than the
\* researcher's
C15_Witness ==
    /\ SuccessfulRun
    /\ Len(workflow_data.researcher.sources) = 1
    /\ Len(workflow_data.reviewer.sources) = 2
    /\ workflow_data.formatter.sources = workflow_data.researcher.sources

(***************************************************************************)
(* C16. Citation accumulation.  The sources of a successful REVIEWER       *)
(* result are the sources of the researcher result it was given, followed  *)
(* by the sources its own retrieval returned, duplicates kept; the length  *)
(* is the sum of the two lengths.                                          *)
(***************************************************************************)
ReviewerSucceeded ==
    /\ pc = "called"
    /\ call.agent = "REVIEWER"
    /\ ~call.out.raised
    /\ call.out.result.status = "success"

C16_CitationAccumulation ==
    ReviewerSucceeded
    => LET given == Get(call.input_data, "sources", << >>)
           own == Get(call.ret.value, "sources", << >>)
           got == call.out.result.sources
       IN  /\ got = given \o own
           /\ Len(got) = Len(given) + Len(own)
           /\ \A i \in 1..Len(given) : got[i] = given[i]
           /\ \A i \in 1..Len(own) : got[Len(given) + i] = own[i]

\* the reviewer's retrieval returned the citation the researcher already had
C16_Witness ==
    /\ ReviewerSucceeded
    /\ Len(call.input_data.sources) = 1
    /\ call.ret.value.sources = call.input_data.sources
    /\ Len(call.out.result.sources) = 2
    /\ call.out.result.sources[1] = call.out.result.sources[2]

(***************************************************************************)
(* C17. Results are not changed once returned.  At every point of a run    *)
(* the slot of each stage that has returned holds the result its agent     *)
(* returned (the other slots are empty), also after a later stage failed   *)
(* or an exception was caught; and no step changes a slot that holds a     *)
(* result.                                                                 *)
(***************************************************************************)
Slots == <<"researcher", "reviewer", "synthesizer", "questioner", "formatter">>

SlotsAsReturned ==
    pc # "idle"
    => \A i \in 1..5 :
          workflow_data[Slots[i]] =
              IF EventsOf("return", AgentNames[i]) # {} THEN ResultOf(i) ELSE EmptyDict

StoredSlotsKept ==
    pc # "idle"
    => \A i \in 1..5 :
          workflow_data[Slots[i]] # EmptyDict
          => workflow_data'[Slots[i]] = workflow_data[Slots[i]]

C17_ResultsImmutable == []SlotsAsReturned /\ [][StoredSlotsKept]_vars

\* the third stage raised after two stages had succeeded
C17_Witness ==
    /\ pc = "returned"
    /\ ExceptionCaught
    /\ LastEvent.agent = "SYNTHESIZER"
    /\ StageSucceededAt(1)
    /\ StageSucceededAt(2)
    /\ workflow_data.researcher = ResultOf(1)
    /\ workflow_data.reviewer = ResultOf(2)
    /\ workflow_data.researcher # EmptyDict

(***************************************************************************)
(* C18. An empty retrieval is fatal only at the first stage.  When the     *)
(* retrieval of the REVIEWER, SYNTHESIZER or QUESTIONER returns no source, *)
(* the stage goes on to call the generation collaborator and returns a     *)
(* result, with status "success" if the generation returned a text; and a  *)
(* run ends with status "error" only if a collaborator raised or the       *)
(* RESEARCHER's retrieval was empty.                                       *)
(***************************************************************************)
\* positions where a stage after the first got an empty retrieval
EmptyLaterRetrievals ==
    {j \in 1..Len(trace) :
        trace[j].ev = "retrieved" /\ trace[j].agent # "RESEARCHER" /\ trace[j].arg = 0}

GenerationFailed == \E j \in 1..Len(trace) : trace[j].ev = "generate" /\ trace[j].arg.kind = "raise"

C18_EmptyRetrievalTolerated ==
    /\ \A j \in EmptyLaterRetrievals :
          /\ Len(trace) >= j + 2
          /\ trace[j + 1].ev = "generate"
          /\ trace[j + 1].agent = trace[j].agent
          /\ trace[j + 2].ev = "return"
          /\ trace[j + 2].agent = trace[j].agent
          /\ trace[j + 1].arg.kind = "ok" => trace[j + 2].arg.status = "success"
    /\ (pc = "returned" /\ workflow_data.status = "error")
       => ExceptionCaught \/ GenerationFailed \/ ResearcherRetrievedNothing

\* a successful run in which the three later retrievals were all empty
C18_Witness ==
    /\ pc = "returned"
    /\ workflow_data.status = "success"
    /\ \A i \in 2..4 : \E j \in EmptyLaterRetrievals : trace[j].agent = AgentNames[i]

(***************************************************************************)
(* C19. The FORMATTER performs no retrieval: in every run and in every     *)
(* direct call of its process, it makes no request to the retrieval        *)
(* collaborator; its document ceiling is 0.                                *)
(***************************************************************************)
C19_FormatterNoRetrieval ==
    /\ max_retrieval_docs["FORMATTER"] = 0
    /\ Count("retrieve", "FORMATTER") = 0
    /\ Count("retrieved", "FORMATTER") = 0
    /\ Invoked(5)
       => \A j \in 1..Len(trace) :
             trace[j].agent = "FORMATTER" => trace[j].ev \in {"process", "generate", "return"}

\* a run in which the four earlier stages retrieved and the FORMATTER ran
C19_Witness ==
    /\ pc = "returned"
    /\ Invoked(5)
    /\ Count("generate", "FORMATTER") = 1
    /\ Count("retrieve", "FORMATTER") = 0
    /\ \A i \in 1..4 : Count("retrieve", AgentNames[i]) = 1

(***************************************************************************)
(* C20. Extraction caps.  For every text, the empty one and one with more  *)
(* matching lines than the cap included, the list a heuristic returns has  *)
(* at most 10 (findings), 5 (strengths, weaknesses, hypotheses, insights,  *)
(* gaps) or 7 (questions) items, and it is the stripped lines that match   *)
(* the heuristic's rule, in the order of the text, cut after the cap.      *)
(***************************************************************************)
Cap(fn) ==
    CASE fn = "findings" -> 10
      [] fn = "questions" -> 7
      [] OTHER -> 5

\* a bullet or a numbered line
ListLine(line) ==
    strip(line) # << >> /\ (strip(line)[1] = "-" \/ isdigit(strip(line)[1]))

\* the line that opens the section of keyword kw
SectionHeader(line, kw) ==
    /\ In(kw, lower(line))
    /\ strip(line) # << >>
    /\ In(<<"-">>, line) \/ isdigit(line[1])

\* a long line of prose, which ends a section
SectionStop(line) ==
    /\ strip(line) # << >>
    /\ ~ListLine(line)
    /\ ~In(<<"-">>, line)
    /\ Len(strip(line)) > 50

Least(ps) == CHOOSE p \in ps : \A q \in ps : p <= q

\* positions of the list lines from the section's first header up to the
\* first long line of prose after it
SectionLines(lines, kw) ==
    LET hs == {p \in 1..Len(lines) : SectionHeader(lines[p], kw)}
    IN  IF hs = {} THEN {}
        ELSE LET stops == {p \in Least(hs)..Len(lines) : SectionStop(lines[p])}
                 end == IF stops = {} THEN Len(lines) + 1 ELSE Least(stops)
             IN  {p \in Least(hs)..(end - 1) : ListLine(lines[p])}

\* positions of the lines of the text that match the rule of heuristic fn
Matches(fn, lines) ==
    CASE fn = "findings" -> {p \in 1..Len(lines) : ListLine(lines[p])}
      [] fn = "strengths" -> SectionLines(lines, KwStrengths)
      [] fn = "weaknesses" -> SectionLines(lines, KwWeaknesses)
      [] fn = "hypotheses" ->
            {p \in 1..Len(lines) :
                /\ \/ In(KwHypothesis, lower(lines[p]))
                   \/ \E d \in {"1", "2", "3"} : In(<<"h", d>>, lower(lines[p]))
                /\ Len(strip(lines[p])) > 20}
      [] fn = "insights" ->
            {p \in 1..Len(lines) :
                /\ \E kw \in {KwInsight, KwPattern, KwRelationship} : In(kw, lower(lines[p]))
                /\ Len(strip(lines[p])) > 30}
      [] fn = "gaps" ->
            {p \in 1..Len(lines) :
                In(KwGap, lower(lines[p])) /\ Len(strip(lines[p])) > 20}
      [] fn = "questions" ->
            {p \in 1..Len(lines) :
                In(<<"?">>, lines[p]) /\ Len(strip(lines[p])) > 10}

C20_ExtractionCaps ==
    pc = "extracted"
    => LET lines == split(call.text)
           ps == Matches(call.fn, lines)
           n == Len(call.out)
       IN  /\ n <= Cap(call.fn)
           /\ n = IF Cardinality(ps) < Cap(call.fn) THEN Cardinality(ps) ELSE Cap(call.fn)
           /\ \A i \in 1..n :
                 \E p \in ps : /\ Cardinality({q \in ps : q < p}) = i - 1
                               /\ call.out[i] = strip(lines[p])

\* a text with more list lines than the cap of findings
C20_Witness ==
    /\ pc = "extracted"
    /\ call.fn = "findings"
    /\ Cardinality(Matches("findings", split(call.text))) > 10
    /\ Len(call.out) = 10

(***************************************************************************)
(* C21. As claimed: each of the seven heuristics, run again on the text    *)
(* made of the list it returned (one item per line), returns that list.    *)
(***************************************************************************)
C21_Idempotent == pc = "re-extracted" => call.out = call.first

(***************************************************************************)
(* C21, amended.  The heuristics of findings, hypotheses, insights, gaps   *)
(* and questions, run again on the text made of the list they returned,    *)
(* return that list.  The section heuristic (strengths, weaknesses) then   *)
(* returns the part of its list from the first item that contains the      *)
(* section keyword on, and the empty list when no item contains it: it     *)
(* returns the same list only when the list is empty or its first item     *)
(* contains the keyword.                                                   *)
(***************************************************************************)
SectionKeyword(fn) == IF fn = "strengths" THEN KwStrengths ELSE KwWeaknesses

\* the items of a list from the first one that contains kw on
FromKeyword(items, kw) ==
    LET ks == {i \in 1..Len(items) : In(kw, lower(items[i]))}
    IN  IF ks = {} THEN << >> ELSE SubSeq(items, Least(ks), Len(items))

C21_IdempotentButSections ==
    pc = "re-extracted"
    => IF call.fn \in {"strengths", "weaknesses"}
       THEN /\ call.out = FromKeyword(call.first, SectionKeyword(call.fn))
            /\ call.out = call.first
               <=> \/ call.first = << >>
                   \/ In(SectionKeyword(call.fn), lower(call.first[1]))
       ELSE call.out = call.first

\* a section whose header line is not itself a list line: the second run
\* finds no header in the items
C21_Witness ==
    /\ pc = "re-extracted"
    /\ call.fn = "strengths"
    /\ Len(call.first) >= 2
    /\ call.out = << >>

(***************************************************************************)
(* C22. As claimed: the hypotheses list is the first 5, in order, of the   *)
(* stripped lines of the text that contain "hypothesis" or a label H and a *)
(* digit, any digit (in either case, as the code compares lowered lines),  *)
(* and are longer than 20 characters after stripping.                      *)
(***************************************************************************)
Digits == {"0", "1", "2", "3", "4", "5", "6", "7", "8", "9"}

\* out is the stripped lines at the positions ps, in order, cut after cap
IsFirstOf(out, lines, ps, cap) ==
    /\ Len(out) = IF Cardinality(ps) < cap THEN Cardinality(ps) ELSE cap
    /\ \A i \in 1..Len(out) :
          \E p \in ps : /\ Cardinality({q \in ps : q < p}) = i - 1
                        /\ out[i] = strip(lines[p])

HypothesisLines(lines) ==
    {p \in 1..Len(lines) :
        /\ \/ In(KwHypothesis, lower(lines[p]))
           \/ \E d \in Digits : In(<<"h", d>>, lower(lines[p]))
        /\ Len(strip(lines[p])) > 20}

C22_HypothesesAnyDigit ==
    (pc = "extracted" /\ call.fn = "hypotheses")
    => IsFirstOf(call.out, split(call.text), HypothesisLines(split(call.text)), 5)

(***************************************************************************)
(* C23. As claimed: the section heuristic collects from the first header   *)
(* line of its keyword the bullet and numbered lines, up to the first      *)
(* later line that is not a list line and is longer than 50 characters; no *)
(* list line after such a line is in the result; the result is cut after   *)
(* 5 items.                                                                *)
(***************************************************************************)
\* a line that is not a bullet or numbered line and is longer than 50
NonListLong(line) == ~ListLine(line) /\ Len(strip(line)) > 50

SectionLinesUntilLong(lines, kw) ==
    LET hs == {p \in 1..Len(lines) : SectionHeader(lines[p], kw)}
    IN  IF hs = {} THEN {}
        ELSE LET stops == {p \in Least(hs)..Len(lines) : NonListLong(lines[p])}
                 end == IF stops = {} THEN Len(lines) + 1 ELSE Least(stops)
             IN  {p \in Least(hs)..(end - 1) : ListLine(lines[p])}

C23_SectionStopsAtLongLine ==
    (pc = "extracted" /\ call.fn \in {"strengths", "weaknesses"})
    => IsFirstOf(call.out, split(call.text),
                 SectionLinesUntilLong(split(call.text), SectionKeyword(call.fn)), 5)

(***************************************************************************)
(* C24. Extraction never errors.  On every text (the empty text, blank     *)
(* lines and prose without any marker included) each heuristic returns a   *)
(* list, possibly empty, and does not raise; and a call of process whose   *)
(* generation returned a text returns a result with status "success" that  *)
(* carries the extracted lists, whatever the text.                         *)
(***************************************************************************)
ListFields(name) ==
    CASE name = "RESEARCHER" -> {"findings"}
      [] name = "REVIEWER" -> {"strengths", "weaknesses"}
      [] name = "SYNTHESIZER" -> {"hypotheses", "insights"}
      [] name = "QUESTIONER" -> {"gaps", "questions"}
      [] name = "FORMATTER" -> {}

IsList(xs) == DOMAIN xs = 1..Len(xs)

C24_ExtractionNeverErrors ==
    /\ pc \in {"extracted", "re-extracted"}
       => ~call.raised /\ IsList(call.out)
    /\ \A j \in 1..Len(trace) :
          (trace[j].ev = "generate" /\ trace[j].arg.kind = "ok")
          => /\ Len(trace) > j
             /\ trace[j + 1].ev = "return"
             /\ trace[j + 1].agent = trace[j].agent
             /\ trace[j + 1].arg.status = "success"
             /\ \A f \in ListFields(trace[j].agent) :
                   f \in DOMAIN trace[j + 1].arg /\ IsList(trace[j + 1].arg[f])

\* the section heuristic on a text of two blank lines
C24_Witness ==
    /\ pc = "extracted"
    /\ call.fn = "strengths"
    /\ call.text = <<NL>>
    /\ ~call.raised
    /\ call.out = << >>

(***************************************************************************)
(* C25.  The k of a retrieval request.                                     *)
(***************************************************************************)

\* The range of k the specification gives each role
SpecifiedK(agent) ==
    CASE agent = "RESEARCHER" -> {10}
      [] agent = "REVIEWER" -> 6..8
      [] agent = "SYNTHESIZER" -> 6..8
      [] agent = "QUESTIONER" -> 5..6
      [] OTHER -> {0}

RetrievalRequests == {i \in 1..Len(trace) : trace[i].ev = "retrieve"}

\* C25: every retrieval request an agent issues, in a workflow run or in a
\* direct call of its process, carries a k that is at least 0, at most the
\* agent's max_retrieval_docs, and in the range specified for its role
\* (Researcher 10, Reviewer 6-8, Synthesizer 6-8, Questioner 5-6).
C25_RetrievalK ==
    \A i \in RetrievalRequests :
        /\ trace[i].arg.k >= 0
        /\ trace[i].arg.k <= max_retrieval_docs[trace[i].agent]
        /\ trace[i].arg.k \in SpecifiedK(trace[i].agent)

\* A run in which all four retrieving roles have issued their request
C25_Witness ==
    \A a \in {"RESEARCHER", "REVIEWER", "SYNTHESIZER", "QUESTIONER"} :
        \E i \in RetrievalRequests : trace[i].agent = a

(***************************************************************************)
(* C26.  The auxiliary views.                                              *)
(***************************************************************************)

\* the record has no report to save
NothingToSave(wd) == NotSuccess(wd) \/ Get(wd, "report", << >>) = << >>

\* C26: get_workflow_summary and save_report leave the record they are
\* given as it was, and save_report does not open its destination, hence
\* writes nothing to it, when the record's status is not "success" or its
\* report is empty.
C26_ViewsReadOnly ==
    pc = "viewed" =>
        /\ workflow_data = call.given
        /\ (call.fn = "save_report" /\ NothingToSave(call.given)) =>
               (~call.opened /\ call.file = << >>)

\* save_report was called on the record of a successful run whose report is
\* the empty text
C26_Witness ==
    /\ pc = "viewed"
    /\ call.fn = "save_report"
    /\ call.given.status = "success"
    /\ call.given.report = << >>
    /\ ~call.opened

(***************************************************************************)
(* C27.  Slots and execution log.                                          *)
(***************************************************************************)

\* positions of the log entries of the i-th role
LogEntriesOf(i) ==
    {j \in 1..Len(workflow_data.workflow) : workflow_data.workflow[j].agent = AgentNames[i]}

C28_ErrorXorReport ==
    pc = "returned"
    => /\ "error" \in DOMAIN workflow_data <=> workflow_data.status = "error"
       /\ "report" \in DOMAIN workflow_data <=> workflow_data.status = "success"
       /\ ~("error" \in DOMAIN workflow_data /\ "report" \in DOMAIN workflow_data)

\* the run failed at its last stage: the formatter's result is stored with
\* status "error", and the record has an error and no report
C28_Witness ==
    /\ pc = "returned"
    /\ workflow_data.formatter # EmptyDict
    /\ workflow_data.formatter.status = "error"
    /\ "error" \in DOMAIN workflow_data
    /\ "report" \notin DOMAIN workflow_data

(***************************************************************************)
(* C29.  The short-circuit comes before the retrieval.                     *)
(***************************************************************************)

ShortCircuiting == {"REVIEWER", "SYNTHESIZER", "QUESTIONER"}

\* a direct call of one of the three agents with an input that is not a
\* success
CalledWithFailure ==
    /\ pc = "called"
    /\ call.agent \in ShortCircuiting
    /\ NotSuccess(call.input_data)

\* C29: the process of the Reviewer, the Synthesizer or the Questioner,
\* called with an input whose status is not "success", returns a result of
\* status "error" and has called neither the retrieval collaborator nor the
\* generation collaborator, whatever they would have answered.
C29_ShortCircuitSkipsRetrieval ==
    CalledWithFailure
    => /\ ~call.out.raised
       /\ call.out.result.status = "error"
       /\ \A i \in 1..Len(trace) : trace[i].ev \notin {"retrieve", "retrieved", "generate"}
       /\ trace = <<Ev("process", call.agent, call.input_data),
                    Ev("return", call.agent, call.out.result)>>

\* the Questioner was called with a failed synthesis while the retrieval
\* collaborator would have raised
C29_Witness ==
    /\ CalledWithFailure
    /\ call.agent = "QUESTIONER"
    /\ call.input_data.status = "error"
    /\ call.ret.kind = "raise"
    /\ call.out.result.status = "error"

(***************************************************************************)
(* C30.  The Researcher generates only from retrieved sources.             *)
(***************************************************************************)

\* positions of the events of one kind, of any agent
AllEvents(e) == {j \in 1..Len(trace) : trace[j].ev = e}

\* C30: every generation call of the Researcher comes after an answer of
\* the retrieval collaborator to the Researcher with at least one source;
\* and a run whose first retrieval returned no source has returned, with
\* one retrieval request and no generation call in its whole history.
C30_GenerationNeedsSources ==
    /\ \A j \in EventsOf("generate", "RESEARCHER") :
          \E i \in EventsOf("retrieved", "RESEARCHER") : i < j /\ trace[i].arg >= 1
    /\ ResearcherRetrievedNothing
       => /\ pc = "returned"
          /\ Cardinality(AllEvents("retrieve")) = 1
          /\ Cardinality(AllEvents("generate")) = 0

\* the run whose only events are the Researcher's call, its retrieval
\* request, the answer without sources and the return of the error result
C30_Witness ==
    /\ pc = "returned"
    /\ Len(trace) = 4
    /\ trace[2].ev = "retrieve"
    /\ trace[3] = Ev("retrieved", "RESEARCHER", 0)
    /\ trace[4].ev = "return"
    /\ workflow_data.researcher.message = <<"No relevant documents found">>

(***************************************************************************)
(* C31.  The record the Formatter is given.                                *)
(***************************************************************************)

\* the record is in progress with four successful stages behind it
InProgressAfterFour(record) ==
    /\ record.status = "in_progress"
    /\ \A i \in 1..4 :
          /\ record[Slots[i]] # EmptyDict
          /\ record[Slots[i]].status = "success"
    /\ record.formatter = EmptyDict
    /\ Len(record.workflow) = 4

\* C31: the record with which the orchestrator calls the Formatter's
\* process has status "in_progress", results of status "success" in the
\* researcher, reviewer, synthesizer and questioner slots, an empty
\* formatter slot and a log of exactly four entries.
C31_FormatterInput ==
    \A j \in EventsOf("process", "FORMATTER") : InProgressAfterFour(trace[j].arg)

\* a returned run in which the Formatter was called, while the record has
\* since been completed
C31_Witness ==
    /\ pc = "returned"
    /\ Invoked(5)
    /\ workflow_data.status = "success"
    /\ workflow_data.formatter # EmptyDict
    /\ Len(workflow_data.workflow) = 5

(***************************************************************************)
(* C32.  Where the citations of a successful run end up.                   *)
(***************************************************************************)

\* the citations the Reviewer's own retrieval added to the Researcher's
ReviewerOwnCitations ==
    SubSeq(ResultOf(2).sources, Len(ResultOf(1).sources) + 1, Len(ResultOf(2).sources))

\* the stage results a result may carry inside it
NestedResults == {"researcher", "reviewer", "synthesizer", "questioner"}

\* d has a citation list that goes beyond the Researcher's
BeyondResearcher(d) ==
    "sources" \in DOMAIN d /\ Len(d.sources) > Len(ResultOf(1).sources)

\* the result holds the Reviewer's own citations, in its sources or in a
\* stage result it carries
CarriesReviewerCitations(r) ==
    \/ BeyondResearcher(r)
    \/ \E k \in NestedResults \cap DOMAIN r : BeyondResearcher(r[k])

\* C32: in a successful run the sources of the Formatter's result are the
\* sources of the Researcher's result, item for item, and the citations the
\* Reviewer's own retrieval added are in the Reviewer's result only: the
\* results of the Synthesizer, the Questioner and the Formatter do not hold
\* them.
C32_ReviewerCitationsStay ==
    SuccessfulRun
    => /\ ResultOf(5).sources = ResultOf(1).sources
       /\ ReviewerOwnCitations # << >>
          => \A i \in 3..5 : ~CarriesReviewerCitations(ResultOf(i))

(***************************************************************************)
(* C32, amended.  In a successful run the sources of the Formatter's       *)
(* result are the sources of the Researcher's result, item for item; the   *)
(* results of the Synthesizer and the Questioner have no sources and carry *)
(* no stage result; the Formatter's result carries the four stage results  *)
(* as they were returned, so the citations the Reviewer added are in it,   *)
(* inside the Reviewer's result under "reviewer", and nowhere else in it.  *)
(***************************************************************************)
C32_SourcesOfLaterResults ==
    SuccessfulRun
    => /\ ResultOf(5).sources = ResultOf(1).sources
       /\ ResultOf(2).sources = ResultOf(1).sources \o ReviewerOwnCitations
       /\ \A i \in 3..4 :
             /\ "sources" \notin DOMAIN ResultOf(i)
             /\ NestedResults \cap DOMAIN ResultOf(i) = {}
       /\ \A i \in 1..4 : ResultOf(5)[Slots[i]] = ResultOf(i)
       /\ ReviewerOwnCitations # << >>
          => {k \in NestedResults : BeyondResearcher(ResultOf(5)[k])} = {"reviewer"}

\* a successful run in which the Reviewer's retrieval added a citation,
\* which the Formatter's result holds inside the Reviewer's result
C32_Witness ==
    /\ SuccessfulRun
    /\ Len(ReviewerOwnCitations) = 1
    /\ Len(ResultOf(5).sources) = 1
    /\ Len(ResultOf(5).reviewer.sources) = 2

====
